---- MODULE Spec2Model ----
(***************************************************************************)
(* The query pipeline of poor-man-dns: BaseHandler.handle_request with its *)
(* stages (parse, custom, blocked, cache, forward, upstream DoH), the      *)
(* singleflight overlay of ADSServer (lock / set / unlock / get /          *)
(* get_or_set over asyncio.Lock objects) and the UDP listener that sends   *)
(* the reply.  Every action is one run of a handler task between two       *)
(* suspension points of the event loop.                                    *)
(***************************************************************************)
EXTENDS Integers, Sequences, FiniteSets, TLC

\* ------------------------------------------------------------------ bounds
MaxQ == 3          \* handler tasks that can be suspended at the same time
MaxArrivals == 3   \* datagrams or HTTP requests received in one run
MaxReloads == 1    \* calls of BaseServer.reload in one run
MaxEdits == 1      \* changes of the config file in one run
MaxLookups == 2    \* blocked-set lookups in one run
MaxDay == 2        \* UTC days of one run

\* --------------------------------------------------------- program constants
CustomTTL == 300

\* ------------------------------------------------------------ input domains
Tasks == 1..MaxQ
LockIds == 1..MaxQ
NoLock == 0
NoTarget == "None"

\* the questions clients ask: every name as A and as PTR, and a blocked name
\* as AAAA
Questions ==
    {[name |-> n, rdtype |-> t] : n \in ({"localhost.", "1.0.0.127.in-addr.arpa.", "ads.example.com.",
                                                  "nas.lan.", "widget.test."}), t \in {1, 12}}
    \cup {[name |-> "ads.example.com.", rdtype |-> 28]}

\* a name of the custom map asked as AAAA
CustomQuestions == {[name |-> "localhost.", rdtype |-> 28]}

\* wire data received by a listener: undecodable bytes, a message without a
\* question, or a query with one question
Datagrams ==
    {[kind |-> "garbage", name |-> "", rdtype |-> 0],
     [kind |-> "noquestion", name |-> "", rdtype |-> 0]}
    \cup {[kind |-> "query", name |-> x.name, rdtype |-> x.rdtype] : x \in Questions}

\* names as clients spell them: dns.name.Name.to_text keeps the case of the
\* labels on the wire
CaseQuestions ==
    {[name |-> n, rdtype |-> 1] :
        n \in {"ADS.Example.COM.", "Widget.Test.", "LocalHost."}}

VARIABLES
    forward,          \* server.forward: [custom: name -> literal, dns: rules]
    upstream,         \* server.upstream: [doh: pool, message: mode]
    cache_enable,     \* server.cache.enable
    blocked,          \* ADSServer.adsblock.blocked
    task,             \* the handler tasks, by slot
    locks,            \* ADSServer.locks: key -> lock object (NoLock: absent)
    lk,               \* the asyncio.Lock objects
    cache,            \* ADSServer.cache (TTLCache): key -> answer; the cache of
                      \* DOHServer of helpers/doh.py, <<>> when it is None
    cache_wip,        \* DOHServer.cache_wip of helpers/doh.py
    last_target_doh,  \* server.last_target_doh
    prev_target_doh,  \* history: last_target_doh before the latest selection
    reqs,             \* history: upstream DoH requests issued, per key
    failed,           \* history: an upstream request for the key has failed
    expired,          \* history: a cache entry of the key expired or was evicted
    got,              \* history: answer of the latest successful upstream request
    filled,           \* history: the response returned by the resolution that
                      \* inserted the latest cache entry of the key
    arrivals,         \* datagrams received so far
    last,             \* outcome of the handler task that finished last
    listener,         \* the listener in front of the pipeline: "dns", "doh"
                      \* or "dot", or "udp" for DNSServer of helpers/dns.py,
                      \* or "https" for DOHServer of helpers/doh.py
    running,          \* DNSServer.running
    transport,        \* DNSServer.transport: "bound" or "None"
    sock,             \* socket of the datagram transport the handler sends on
    http_client,      \* state of server.http_client: "open" or "closed"
    shutdown_event,   \* DNSServer.shutdown_event is set
    listen_pc,        \* position of the task that runs DNSServer.listen
    reload_pc,        \* position and config argument of BaseServer.reload
    reloads,          \* calls of reload so far
    restart,          \* DNSServer.restart
    service_pc,       \* position of service(): "up", or the server whose
                      \* close() the finally clause calls next, or "down"
    config_file,      \* the config file on disk
    adsblock_config,  \* config.adsblock, the live section
    adsblock,         \* fields of ADSServer.adsblock taken from the config
    settings,         \* table settings: config-sha256, blocked-domains, blocked-stats
    lists,            \* table adsblock_lists: url -> row
    counters,         \* table adsblock_domains: domain -> type -> count
    updates,          \* SQLite.updates, the queue of pending upserts
    watcher,          \* the task that runs ADSServer.listen, with fetch's locals
    today,            \* the UTC day
    installed,        \* history: the blocked set when the last load ended
    seen,             \* history: what the last blocked-set lookup observed
    synced,           \* history: the last Config.sync of the watcher
    enqueued,         \* history: counter updates enqueued, domain -> type -> n
    edits,            \* changes of the config file so far
    lookups           \* blocked-set lookups so far

AdsVars == <<config_file, adsblock_config, adsblock, settings, lists, counters,
             updates, watcher, today, installed, seen, synced, enqueued,
             edits, lookups>>

ServerVars == <<listener, running, transport, sock, http_client,
                shutdown_event, listen_pc, reload_pc, reloads, restart,
                service_pc>>

vars == <<forward, upstream, cache_enable, blocked, task, locks, lk, cache,
          cache_wip,
          last_target_doh, prev_target_doh, reqs, failed, expired, got, filled,
          arrivals, last, ServerVars, AdsVars>>

\* ------------------------------------------------------------ dnspython
\* dns.rdatatype.to_text
RdataTypeToText(t) ==
    IF t = 1 THEN "A" ELSE IF t = 12 THEN "PTR" ELSE IF t = 28 THEN "AAAA"
    ELSE "TYPE"

\* dns.message.from_wire followed by question[0]: a message or a failure
FromWire(data) ==
    IF data.kind = "garbage" THEN [ok |-> FALSE, question |-> <<>>]
    ELSE IF data.kind = "noquestion" THEN [ok |-> TRUE, question |-> <<>>]
    ELSE [ok |-> TRUE,
          question |-> <<[name |-> data.name, rdtype |-> data.rdtype]>>]

NoResponse == [rcode |-> "none", answer |-> <<>>, question |-> <<>>]

\* dns.message.Message()
EmptyMessage == [rcode |-> "NOERROR", answer |-> <<>>, question |-> <<>>]

\* dns.message.make_response(dns_query)
MakeResponse(m) == [rcode |-> "NOERROR", answer |-> <<>>, question |-> m.question]

SetRcode(r, rcode) == [r EXCEPT !.rcode = rcode]

\* dns.rrset.from_text: an A rdata must be an IPv4 literal, a PTR rdata is a
\* name; a text that is no rdata of the type raises
RrsetFromText(name, ttl, rdclass, rdtype, text) ==
    IF rdtype = 1 /\ text \notin ({"127.0.0.1", "1.1.1.1", "2.2.2.2"})
    THEN [ok |-> FALSE, rrset |-> <<>>]
    ELSE [ok |-> TRUE,
          rrset |-> [name |-> name, ttl |-> ttl, rdclass |-> rdclass,
                     rdtype |-> rdtype, rdata |-> text]]

CacheKeyname(query_name, query_type) == query_name \o ":" \o query_type

Keys ==
    {CacheKeyname(x.name, RdataTypeToText(x.rdtype)) :
        x \in Questions \cup CustomQuestions \cup CaseQuestions}

\* ------------------------------------------------------------ task records
IdleTask ==
    [pc |-> "idle", data |-> [kind |-> "none", name |-> "", rdtype |-> 0],
     question |-> <<>>, query_name |-> "", query_type |-> "", key |-> "",
     lock |-> NoLock, upd |-> <<>>, ups |-> 0, fwd |-> 0, ins |-> 0,
     waited |-> {}, err |-> "", ferr |-> "", old |-> FALSE,
     conn |-> "none", reads |-> <<>>, written |-> <<>>]

\* the handler task is ready for its next query: what it did for the last
\* one is forgotten, its connection stays
NextQuery(t) ==
    [IdleTask EXCEPT !.conn = t.conn, !.reads = t.reads,
                     !.written = t.written]

NoHttp == [status |-> 0, content_type |-> "", body |-> <<>>]

NoLast ==
    [stage |-> "none", data |-> IdleTask.data, question |-> <<>>,
     query_name |-> "", query_type |-> "", key |-> "",
     resp |-> NoResponse, raised |-> FALSE, sent |-> <<>>, http |-> NoHttp,
     upd |-> <<>>, ups |-> 0, fwd |-> 0, ins |-> 0, waited |-> {},
     err |-> "", ferr |-> "", old |-> FALSE]

FreshLock == [locked |-> FALSE, waiters |-> <<>>, woken |-> FALSE]

\* TTLCache.get of a missing key returns None; an entry is the dict that
\* upstream_doh and forward_dns store (its timestamp is never read)
NoEntry == <<>>

Entry(answer) == <<[response |-> answer]>>

\* the mutable state a handler step works on
Cur ==
    [task |-> task, locks |-> locks, lk |-> lk, cache |-> cache,
     cache_wip |-> cache_wip,
     last_target_doh |-> last_target_doh, prev_target_doh |-> prev_target_doh,
     reqs |-> reqs, failed |-> failed, expired |-> expired, got |-> got,
     filled |-> filled,
     last |-> last]

Commit(s) ==
    /\ task' = s.task
    /\ locks' = s.locks
    /\ lk' = s.lk
    /\ cache' = s.cache
    /\ cache_wip' = s.cache_wip
    /\ last_target_doh' = s.last_target_doh
    /\ prev_target_doh' = s.prev_target_doh
    /\ reqs' = s.reqs
    /\ failed' = s.failed
    /\ expired' = s.expired
    /\ got' = s.got
    /\ filled' = s.filled
    /\ last' = s.last

\* ------------------------------------------------------------ asyncio.Lock
\* a lock object nobody refers to any more is a fresh one
Referenced(s, l) ==
    \/ \E k \in Keys : s.locks[k] = l
    \/ \E q \in Tasks : s.task[q].lock = l

Collect(s) ==
    [s EXCEPT !.lk = [l \in LockIds |->
                        IF Referenced(s, l) THEN s.lk[l] ELSE FreshLock]]

\* Lock.acquire, slow path: queue a future and suspend
Enqueue(s, l, q) == [s EXCEPT !.lk[l].waiters = Append(@, q)]

\* Lock.acquire resumed: the woken waiter leaves the queue and takes the lock
Dequeue(s, l) ==
    [s EXCEPT !.lk[l] = [locked |-> TRUE, waiters |-> Tail(@.waiters),
                         woken |-> FALSE]]

\* Lock.release: unlock and complete the future of the first waiter
Release(s, l) ==
    [s EXCEPT !.lk[l] = [locked |-> FALSE, waiters |-> @.waiters,
                         woken |-> @.waiters # <<>>]]

\* ------------------------------------------------------------ ADSServer
\* ADSServer.lock: the lock registered under key, created when absent
Lock(s, key) ==
    IF s.locks[key] # NoLock THEN s
    ELSE LET free == {l \in LockIds : ~Referenced(s, l)}
             new == CHOOSE l \in free : \A m \in free : l <= m
         IN [s EXCEPT !.locks[key] = new, !.lk[new] = FreshLock]

\* ADSServer.unlock
Unlock(s, key) == [s EXCEPT !.locks[key] = NoLock]

\* ADSServer.set
AdsSet(s, key, value) == Unlock([s EXCEPT !.cache[key] = value], key)

\* a cache whose lookups always miss
CacheGet_Miss(c, key) == NoEntry

\* TTLCache.get as used by ADSServer.get
CacheGet(c, key) == c[key]

\* SQLite.update of an AdsBlockDomain(domain=cache_keyname, type=kind)
SqliteUpdate(s, q, kind) == [s EXCEPT !.task[q].upd = Append(@, kind)]

\* ------------------------------------------------------------ listener
\* a DoH handler that answers every result with status 200
HandleQuery_Always200(response) ==
    [status |-> 200, content_type |-> "application/dns-message",
     body |-> <<response>>]

\* DOHHandler.handle_query: the HTTP response for the result of the pipeline
HandleQuery(response) ==
    IF response.rcode = "FORMERR"
    THEN [status |-> 400, content_type |-> "application/octet-stream",
          body |-> "bad request: invalid query"]
    ELSE IF response.rcode = "SERVFAIL"
    THEN [status |-> 500, content_type |-> "application/octet-stream",
          body |-> "internal server error"]
    ELSE [status |-> 200, content_type |-> "application/dns-message",
          body |-> <<response>>]

\* DatagramTransport.sendto: the datagram leaves unless the socket is closed
Sendto(response) == IF sock = "closed" THEN <<>> ELSE <<response>>

\* what is known of a task when it ends: its query, its response, whether an
\* exception left the handler, the datagrams sent or the HTTP response
\* returned, and what it did
Outcome(t, stage, resp, raised) ==
    [stage |-> stage, data |-> t.data, question |-> t.question,
     query_name |-> t.query_name, query_type |-> t.query_type, key |-> t.key,
     resp |-> resp, raised |-> raised,
     sent |-> IF listener = "dns" /\ resp # NoResponse THEN Sendto(resp)
              ELSE <<>>,
     http |-> IF listener # "doh" THEN NoHttp
              ELSE IF raised THEN ([status |-> 500, content_type |-> "text/plain",
                                    body |-> "500 Internal Server Error"])
              ELSE HandleQuery(resp),
     upd |-> t.upd, ups |-> t.ups, fwd |-> t.fwd, ins |-> t.ins,
     waited |-> t.waited, err |-> t.err, ferr |-> t.ferr, old |-> t.old]

\* Message.to_wire: the octets of a message, here their number; a name takes
\* its text length plus one, an owner name that repeats the question name is
\* a two-octet pointer
WireLength(m) ==
    LET qlen == IF m.question = <<>> THEN 0
                ELSE Len(m.question[1].name) + 1 + 4
        rdlen(rr) == IF rr.rdtype = 1 THEN 4
                     ELSE IF rr.rdtype = 28 THEN 16
                     ELSE Len(rr.rdata) + 1
        alen == IF m.answer = <<>> THEN 0
                ELSE 2 + 10 + rdlen(m.answer[1])
    IN 12 + qlen + alen

\* int.from_bytes(octets, "big")
FromBytes(octets) == octets[1] * 256 + octets[2]

\* DOTHandler.handle_client after handle_request: the length prefix and the
\* wire, one write
DotFrame(resp) ==
    LET n == WireLength(resp)
    IN [prefix |-> <<(n \div 256) % 256, n % 256>>, wire |-> resp]

\* the handler task after handle_request has returned: the DoT handler
\* writes the frame and reads on, the other handlers end
Returned(t, resp) ==
    IF listener = "dot"
    THEN [NextQuery(t) EXCEPT !.written = Append(@, DotFrame(resp))]
    ELSE IdleTask

\* the handler task after an exception has left handle_request: the DoT
\* handler logs it and closes the connection
Raised(t) ==
    IF listener = "dot" THEN [NextQuery(t) EXCEPT !.conn = "closed"]
    ELSE IdleTask

\* DNSHandler.handle_request: send the response, the task ends
Finish(s, q, resp, stage) ==
    Collect([s EXCEPT !.task[q] = Returned(s.task[q], resp),
                      !.last = Outcome(s.task[q], stage, resp, FALSE)])

\* an exception leaves handle_request: the task dies, nothing is sent
Raise(s, q, stage) ==
    Collect([s EXCEPT !.task[q] = Raised(s.task[q]),
                      !.last = Outcome(s.task[q], stage, NoResponse, TRUE)])

\* ------------------------------------------------------------ upstream_doh
Range(seq) == {seq[i] : i \in 1..Len(seq)}

\* list.remove: the list without the first occurrence of x
RECURSIVE Remove(_, _)
Remove(seq, x) ==
    IF seq = <<>> THEN <<>>
    ELSE IF Head(seq) = x THEN Tail(seq)
    ELSE <<Head(seq)>> \o Remove(Tail(seq), x)

\* the URLs random.choice can return in upstream_doh
TargetChoices(pool, last_doh) ==
    LET target_doh == IF last_doh \in Range(pool) THEN Remove(pool, last_doh)
                      ELSE pool
    IN IF target_doh # <<>> THEN Range(target_doh) ELSE {last_doh}

\* the answer section an upstream or a forwarder returns for a question
UpstreamReplies(question) ==
    {[rcode |-> "NOERROR", question |-> question,
      answer |-> <<[name |-> question[1].name, ttl |-> 60, rdclass |-> "IN",
                    rdtype |-> question[1].rdtype, rdata |-> d]>>]
        : d \in {"1.1.1.1"}}
    \cup {[rcode |-> "NXDOMAIN", question |-> question, answer |-> <<>>]}

UpstreamErrors == {"ConnectTimeout", "HTTPStatusError", "Exception"}

\* what ends the UDP exchange of forward_dns without a reply
ForwardErrors == {"TimeoutError", "Exception"}

\* the response upstream_doh builds from a successful HTTP reply
DohResponse(s, q, reply) ==
    IF upstream.message = "dns-json"
    THEN [MakeResponse(s.task[q]) EXCEPT !.answer = reply.answer]
    ELSE reply

\* an except clause that forgets set_rcode
UpstreamFailure_NoRcode(dns_query) == MakeResponse(dns_query)

\* the response of both except clauses of upstream_doh
UpstreamFailure(dns_query) == SetRcode(MakeResponse(dns_query), "SERVFAIL")

\* upstream_doh after the HTTP request, then the end of get_or_set
UpstreamDone(s, q, ok, reply) ==
    LET key == s.task[q].key
        l == s.task[q].lock
        response == IF ok THEN DohResponse(s, q, reply)
                    ELSE UpstreamFailure(s.task[q])
        s1 == IF ok
              THEN [s EXCEPT !.got[key] = response.answer]
              ELSE [s EXCEPT !.failed[key] = TRUE]
        s2 == IF ok /\ cache_enable
              THEN [AdsSet(s1, key, Entry(response.answer))
                      EXCEPT !.task[q].ins = @ + 1, !.filled[key] = response]
              ELSE s1
        s3 == Unlock(Release(s2, l), key)
    IN Finish([s3 EXCEPT !.task[q].lock = NoLock], q, response, "upstream")

\* upstream_doh up to the HTTP request: choose the target, count, send; a
\* client that was closed refuses the request at once
UpstreamDoh(s, q, target) ==
    LET key == s.task[q].key
        s1 == [s EXCEPT !.prev_target_doh = s.last_target_doh,
                        !.last_target_doh = target,
                        !.reqs[key] = @ + 1]
        s2 == SqliteUpdate(s1, q, "upstream")
        s3 == [s2 EXCEPT !.task[q].pc = "upstream", !.task[q].ups = @ + 1]
    IN IF http_client = "closed"
       THEN UpstreamDone([s3 EXCEPT !.task[q].err = "RuntimeError"], q, FALSE,
                         NoResponse)
       ELSE s3

\* ADSServer.get_or_set: take the lock of the key, then run the fetch
GetOrSet(s, q, target) ==
    LET key == s.task[q].key
        s1 == Lock(s, key)
        l == s1.locks[key]
        s2 == [s1 EXCEPT !.task[q].lock = l]
    IN IF ~s1.lk[l].locked /\ s1.lk[l].waiters = <<>>
       THEN UpstreamDoh([s2 EXCEPT !.lk[l].locked = TRUE], q, target)
       ELSE [Enqueue(s2, l, q) EXCEPT !.task[q].pc = "gos_wait",
                                      !.task[q].waited = @ \cup {"get_or_set"}]

\* ------------------------------------------------------------ forward_dns

\* str.endswith
EndsWith(str, suffix) == \E p \in ({"", "nas.", "ads.example.", "widget."}) : p \o suffix = str

\* the rule loop of forward_dns; a rule is the list rule.split(":"), its
\* second field the list servers.split(",")
RECURSIVE MatchRule(_, _)
MatchRule(rules, query_name) ==
    IF rules = <<>> THEN [raised |-> FALSE, target_server |-> ""]
    ELSE LET rule == Head(rules) IN
         IF rule = <<"">> THEN MatchRule(Tail(rules), query_name)
         ELSE IF Len(rule) # 2 THEN [raised |-> TRUE, target_server |-> ""]
         ELSE IF EndsWith(query_name, rule[1] \o ".")
              THEN [raised |-> FALSE, target_server |-> rule[2][1]]
              ELSE MatchRule(Tail(rules), query_name)

\* forward_dns up to the UDP exchange, then the upstream stage
ForwardDns(s, q, target) ==
    LET m == MatchRule(forward.dns, s.task[q].query_name) IN
    IF m.raised THEN Raise(s, q, "forward")
    ELSE IF m.target_server = "" THEN GetOrSet(s, q, target)
    ELSE [SqliteUpdate(s, q, "forward") EXCEPT !.task[q].pc = "forward",
                                               !.task[q].fwd = @ + 1]

\* forward_dns after the UDP exchange
ForwardDone(s, q, ok, reply) ==
    LET key == s.task[q].key
        response == IF ok THEN reply
                    ELSE SetRcode(MakeResponse(s.task[q]), "SERVFAIL")
        s1 == IF ok /\ cache_enable
              THEN [AdsSet(s, key, Entry(response.answer))
                      EXCEPT !.task[q].ins = @ + 1, !.filled[key] = response]
              ELSE s
    IN Finish(s1, q, response, "forward")

\* ------------------------------------------------------------ handle_request
\* the cache stage after ADSServer.get has passed the lock
CacheStage(s, q, target) ==
    LET cached == CacheGet(s.cache, s.task[q].key) IN
    IF cached # NoEntry
    THEN Finish(SqliteUpdate(s, q, "cache-hit"), q,
                [MakeResponse(s.task[q]) EXCEPT !.answer = cached[1].response],
                "cache")
    ELSE ForwardDns(s, q, target)

\* ADSServer.get that reads the cache without waiting for the lock
AdsGet_NoWait(s, q, target) == CacheStage(s, q, target)

\* ADSServer.get: wait for a lock that is held, then read the cache
AdsGet(s, q, target) ==
    LET l == s.locks[s.task[q].key] IN
    IF l # NoLock /\ s.lk[l].locked
    THEN [Enqueue(s, l, q) EXCEPT !.task[q].pc = "get_wait",
                                  !.task[q].lock = l,
                                  !.task[q].waited = @ \cup {"get"}]
    ELSE CacheStage(s, q, target)

\* an empty message whose rcode was never set
InvalidQueryResponse_NoRcode == EmptyMessage

\* the response to a datagram that is no query
InvalidQueryResponse == SetRcode(EmptyMessage, "FORMERR")

\* the condition of the custom stage
IsCustom(query_name, query_type) ==
    query_name \in DOMAIN forward.custom /\ query_type \in {"PTR", "A"}

\* a blocked stage that forgets the PTR policy
IsBlocked_NameOnly(query_name, query_type) == query_name \in blocked

\* the condition of the blocked stage
IsBlocked(query_name, query_type) ==
    query_type = "PTR" \/ query_name \in blocked

\* handle_request from its entry to the first suspension
HandleRequest(s, q, data, target) ==
    LET m == FromWire(data)
        s0 == [s EXCEPT !.task[q] = [NextQuery(@) EXCEPT !.pc = "run",
                                                         !.data = data]]
    IN
    IF ~m.ok \/ m.question = <<>>
    THEN Finish(s0, q, InvalidQueryResponse, "parse")
    ELSE
    LET query_name == m.question[1].name
        query_type == RdataTypeToText(m.question[1].rdtype)
        s1 == [s0 EXCEPT !.task[q].question = m.question,
                         !.task[q].query_name = query_name,
                         !.task[q].query_type = query_type,
                         !.task[q].key = CacheKeyname(query_name, query_type)]
    IN
    IF IsCustom(query_name, query_type)
    THEN LET rr == RrsetFromText(query_name, CustomTTL, "IN",
                                 IF query_type = "PTR" THEN 12 ELSE 1,
                                 forward.custom[query_name])
         IN IF ~rr.ok THEN Raise(s1, q, "custom")
            ELSE Finish(SqliteUpdate(s1, q, "custom-hit"), q,
                        [MakeResponse(m) EXCEPT !.answer = <<rr.rrset>>],
                        "custom")
    ELSE IF IsBlocked(query_name, query_type)
    THEN Finish(SqliteUpdate(s1, q, "blacklisted"), q,
                SetRcode(MakeResponse(m), "NXDOMAIN"), "blocked")
    ELSE IF cache_enable THEN AdsGet(s1, q, target)
    ELSE ForwardDns(s1, q, target)

\* ------------------------------------------------------------ helpers/doh.py
\* do_something from the HTTP request to its end: the response is cached
\* when the request succeeded, the key leaves cache_wip in any case
LegacyDone(s, q, ok, reply) ==
    LET key == s.task[q].key
        response == IF ok THEN DohResponse(s, q, reply) ELSE NoResponse
        s1 == IF ok /\ cache_enable
              THEN [s EXCEPT !.cache[key] = Entry(response.answer),
                             !.task[q].ins = @ + 1]
              ELSE s
    IN Finish([s1 EXCEPT !.cache_wip = @ \ {key}], q, response,
              IF ok THEN "upstream" ELSE "error")

\* do_something from the try statement to the HTTP request
LegacyForward(s, q, target) ==
    LET s1 == [s EXCEPT !.prev_target_doh = s.last_target_doh,
                        !.last_target_doh = target,
                        !.reqs[s.task[q].key] = @ + 1]
    IN [SqliteUpdate(s1, q, "forward") EXCEPT !.task[q].pc = "post",
                                              !.task[q].ups = @ + 1]

\* do_something after the test of cache_wip: a hit is answered, a miss adds
\* the key to cache_wip and goes upstream; a cache that is None raises
LegacyCache(s, q, target) ==
    LET key == s.task[q].key IN
    IF DOMAIN s.cache = {} THEN Raise(s, q, "cache")
    ELSE IF s.cache[key] # NoEntry
    THEN Finish(SqliteUpdate(s, q, "cache-hit"), q,
                [MakeResponse(s.task[q]) EXCEPT !.answer = s.cache[key][1].response],
                "cache")
    ELSE LegacyForward([s EXCEPT !.cache_wip = @ \cup {key}], q, target)

\* DOHHandler.do_something of helpers/doh.py from its entry to the first
\* suspension
DoSomething(s, q, question, target) ==
    LET query_name == question.name
        query_type == RdataTypeToText(question.rdtype)
        key == CacheKeyname(query_name, query_type)
        s1 == [s EXCEPT !.task[q] =
                  [NextQuery(@) EXCEPT
                      !.pc = "run",
                      !.data = [kind |-> "query", name |-> question.name,
                                rdtype |-> question.rdtype],
                      !.question = <<question>>,
                      !.query_name = query_name,
                      !.query_type = query_type,
                      !.key = key]]
    IN
    IF IsCustom(query_name, query_type)
    THEN LET rr == RrsetFromText(query_name, CustomTTL, "IN", 1,
                                 forward.custom[query_name])
         IN IF ~rr.ok THEN Raise(s1, q, "custom")
            ELSE Finish(SqliteUpdate(s1, q, "custom-hit"), q,
                        [MakeResponse(s1.task[q]) EXCEPT !.answer = <<rr.rrset>>],
                        "custom")
    ELSE IF query_name \in blocked
    THEN Finish(SqliteUpdate(s1, q, "blacklisted"), q,
                SetRcode(MakeResponse(s1.task[q]), "NXDOMAIN"), "blocked")
    ELSE IF ~cache_enable THEN LegacyForward(s1, q, target)
    ELSE IF key \in s.cache_wip
    THEN [s1 EXCEPT !.task[q].pc = "wip_sleep",
                    !.task[q].waited = @ \cup {"cache_wip"}]
    ELSE LegacyCache(s1, q, target)

\* ------------------------------------------------------------ configuration
CustomMap ==
    [n \in {"localhost.", "1.0.0.127.in-addr.arpa."} |->
        IF n = "localhost." THEN "127.0.0.1" ELSE "localhost."]

Config == <<forward, upstream, cache_enable, blocked>>

Pipeline == <<locks, lk, cache, cache_wip, last_target_doh, prev_target_doh, reqs,
              failed, expired, got, filled, arrivals, last>>

\* the config a server is started with when one config is enough
OneConfig ==
    /\ forward = [custom |-> CustomMap,
                  dns |-> << <<"lan", <<"10.0.0.1", "10.0.0.2">>>> >>]
    /\ upstream = [doh |-> <<"https://doh1/dns-query", "https://doh2/dns-query">>,
                   message |-> "dns-message"]
    /\ cache_enable \in BOOLEAN
    /\ blocked = {"ads.example.com."}

\* the configs handed to reload: no forward rule, another pool, no cache
ReloadConfigs ==
    {[forward |-> [custom |-> CustomMap, dns |-> <<>>],
      upstream |-> [doh |-> <<"https://doh2/dns-query">>,
                    message |-> "dns-message"],
      cache_enable |-> FALSE]}

NoReload == [pc |-> "none", config |-> <<>>]

\* a server whose listen task has bound the endpoint and waits for shutdown
ServerUp ==
    /\ running = TRUE
    /\ transport = "bound"
    /\ sock = "open"
    /\ http_client = "open"
    /\ shutdown_event = FALSE
    /\ listen_pc = "wait"
    /\ reload_pc = NoReload
    /\ reloads = 0
    /\ restart = FALSE
    /\ service_pc = "up"

\* ------------------------------------------------------------ AdsBlock
Urls == {"https://lists/a.txt", "https://lists/b.txt"}

\* str(response.url) of a response that followed a redirect
Moved(url) ==
    IF url = "https://lists/a.txt" THEN "https://cdn/a.txt"
    ELSE "https://cdn/b.txt"

\* the values of the column url of adsblock_lists
Addresses == Urls \cup {Moved(url) : url \in Urls}

\* the bodies the blacklist URLs serve; a line is the list of its tokens,
\* line.strip().split(), an empty list for a blank line
Body(url) ==
    IF url = "https://lists/a.txt"
    THEN << <<"#hosts">>,
            <<"0.0.0.0", "ads.example.com">>,
            <<>>,
            <<"||track.example.com^">> >>
    ELSE << <<"!filter">>,
            <<"beacon.example.com", "#inline">> >>

Hosts == {"0.0.0.0", "ads.example.com", "track.example.com",
          "beacon.example.com"}

\* str.startswith(("!", "#"))
StartsWithMark(token) ==
    \E mark \in {"!", "#"}, rest \in {"", "hosts", "filter", "inline"} :
        token = mark \o rest

\* domain.replace("||", "").replace("^", "")
Replaced(token) ==
    LET forms(h) == {h, "||" \o h, h \o "^", "||" \o h \o "^"}
    IN IF \E h \in Hosts : token \in forms(h)
       THEN CHOOSE h \in Hosts : token \in forms(h)
       ELSE token

\* an extract that always takes the first token of a line
Extract_FirstToken(contents, buffer) ==
    [buffer |-> buffer \cup
                  {Replaced(contents[i][1]) \o "." :
                      i \in {j \in 1..Len(contents) :
                                /\ contents[j] # <<>>
                                /\ ~StartsWithMark(contents[j][1])}},
     count |-> Cardinality({j \in 1..Len(contents) :
                               /\ contents[j] # <<>>
                               /\ ~StartsWithMark(contents[j][1])})]

\* AdsBlock.extract: the domains of the lines that are neither blank nor a
\* comment, the second token when there is one that is no comment
Extract(contents, buffer) ==
    LET lines == {j \in 1..Len(contents) :
                     /\ contents[j] # <<>>
                     /\ ~StartsWithMark(contents[j][1])}
        domain(line) ==
            IF Len(line) > 1 /\ ~StartsWithMark(line[2]) THEN line[2]
            ELSE line[1]
    IN [buffer |-> buffer \cup
                     {Replaced(domain(contents[j])) \o "." : j \in lines},
        count |-> Cardinality(lines)]

\* "\n".join(sorted(blocked)): the text of a set of lines
JoinLines(domains) == [lines |-> domains]

\* value.split("\n"): the empty text splits into one empty line
SplitLines(text) == IF text.lines = {} THEN {""} ELSE text.lines

\* AdsBlock.parse over the set self.blocked
Parse(type, domains, blocked_set) ==
    LET dotted == {d \o "." : d \in domains \ {""}}
    IN IF type \in {"blacklist", "custom"} THEN blocked_set \cup dotted
       ELSE IF type = "whitelist" THEN blocked_set \ dotted
       ELSE blocked_set

\* ------------------------------------------------------------ Config
\* the config files: text stands for the bytes, adsblock for the section
\* the YAML holds, dns_ok for a dns section that is a mapping
StartFile ==
    [text |-> "a", yaml_ok |-> TRUE, dns_ok |-> TRUE,
     adsblock |-> [reload |-> FALSE, blacklist |-> <<"https://lists/a.txt">>,
                   custom |-> {}, whitelist |-> {}]]

ConfigFiles ==
    {StartFile,
     [text |-> "b", yaml_ok |-> TRUE, dns_ok |-> TRUE,
      adsblock |-> [reload |-> TRUE,
                    blacklist |-> <<"https://lists/a.txt", "https://lists/b.txt">>,
                    custom |-> {"spy.example.com"},
                    whitelist |-> {"ads.example.com"}]],
     [text |-> "c", yaml_ok |-> FALSE, dns_ok |-> TRUE,
      adsblock |-> StartFile.adsblock]}

\* with a rewritten file that names another source and leaves reload off,
\* and one whose dns section is a scalar
RefreshFiles ==
    ConfigFiles \cup
    {[text |-> "d", yaml_ok |-> TRUE, dns_ok |-> TRUE,
      adsblock |-> [reload |-> FALSE, blacklist |-> <<"https://lists/b.txt">>,
                    custom |-> {}, whitelist |-> {}]],
     [text |-> "e", yaml_ok |-> TRUE, dns_ok |-> FALSE,
      adsblock |-> [reload |-> TRUE, blacklist |-> <<"https://lists/b.txt">>,
                    custom |-> {}, whitelist |-> {}]]}

\* hashlib.sha256 of the bytes of the file
Sha256(file) ==
    IF file.text = "a" THEN "ca97" ELSE IF file.text = "b" THEN "3e23"
    ELSE IF file.text = "c" THEN "2e7d"
    ELSE IF file.text = "d" THEN "18ac" ELSE "3f79"

\* Config.load: the digest, and the section of the file in the live config;
\* None when the YAML does not parse, and None when parse raises for the dns
\* section, after setattr has replaced the sections before it
ConfigLoad(file, live) ==
    IF ~file.yaml_ok THEN [sha256 |-> "None", adsblock |-> live]
    ELSE IF ~file.dns_ok THEN [sha256 |-> "None", adsblock |-> file.adsblock]
    ELSE [sha256 |-> Sha256(file), adsblock |-> file.adsblock]

NoRow == [exists |-> FALSE, value |-> "", updated_on |-> 0]

Row(value, day) == [exists |-> TRUE, value |-> value, updated_on |-> day]

\* a sync that reports the change without writing the row
ConfigSync_NoPersist(sha256, row, day) ==
    IF sha256 = "None" THEN [changed |-> FALSE, row |-> row]
    ELSE IF row.exists /\ sha256 = row.value THEN [changed |-> FALSE, row |-> row]
    ELSE [changed |-> TRUE, row |-> row]

\* Config.sync after load: compare with the row config-sha256, write it
ConfigSync(sha256, row, day) ==
    IF sha256 = "None" THEN [changed |-> FALSE, row |-> row]
    ELSE IF row.exists /\ sha256 = row.value THEN [changed |-> FALSE, row |-> row]
    ELSE [changed |-> TRUE, row |-> Row(sha256, day)]

\* ------------------------------------------------------------ SQLite
\* the names whose blocked-set lookups are observed
AdsNames == {"track.example.com.", "beacon.example.com."}

NoText == JoinLines({})

NoSetting == [exists |-> FALSE, value |-> NoText, updated_on |-> 0]

\* the objects handed to SQLite.update
SettingUpdate(key, value) ==
    [table |-> "Setting", key |-> key, value |-> value, contents |-> <<>>,
     status |-> ""]

ListUpdate(url, contents, count, status) ==
    [table |-> "AdsBlockList", key |-> url, value |-> NoText,
     contents |-> contents, count |-> count, status |-> status]

\* the tables as one record
Tables == [settings |-> settings, lists |-> lists, counters |-> counters]

\* a parse that writes contents and count whatever the status
SqliteParse_WritesAll(db, data, day) ==
    IF data.table = "Setting"
    THEN [db EXCEPT !.settings[data.key] =
              [exists |-> TRUE, value |-> data.value, updated_on |-> day]]
    ELSE IF data.table = "AdsBlockDomain"
    THEN [db EXCEPT !.counters[data.key] = @ + 1]
    ELSE [db EXCEPT !.lists[data.key] =
              [exists |-> TRUE, has_contents |-> data.status = "success",
               contents |-> data.contents, count |-> data.count,
               status |-> data.status]]

\* SQLite.parse: the upsert of one queued object into the session
SqliteParse(db, data, day) ==
    IF data.table = "Setting"
    THEN [db EXCEPT !.settings[data.key] =
              [exists |-> TRUE, value |-> data.value, updated_on |-> day]]
    ELSE IF data.table = "AdsBlockDomain"
    THEN [db EXCEPT !.counters[data.key] = @ + 1]
    ELSE [db EXCEPT !.lists[data.key] =
              [exists |-> TRUE,
               has_contents |-> IF data.status = "success" THEN TRUE
                                ELSE @.has_contents,
               contents |-> IF data.status = "success" THEN data.contents
                            ELSE @.contents,
               count |-> IF data.status = "success" THEN data.count
                         ELSE @.count,
               status |-> data.status]]

RECURSIVE ParseAll(_, _, _)
\* flushB: for obj in updates: self.parse(session, obj)
ParseAll(db, queue, day) ==
    IF queue = <<>> THEN db
    ELSE ParseAll(SqliteParse(db, Head(queue), day), Tail(queue), day)

\* ------------------------------------------------------------ ADSServer

IdleWatcher == [pc |-> "start", i |-> 0, buffer |-> {}, ok |-> {},
                how |-> ""]

\* the part of the state that load and fetch change
AdsCur == [blocked |-> blocked, updates |-> updates, watcher |-> watcher,
           installed |-> installed, seen |-> seen]

AdsCommit(a) ==
    /\ blocked' = a.blocked
    /\ updates' = a.updates
    /\ watcher' = a.watcher
    /\ installed' = a.installed
    /\ seen' = a.seen

\* load has returned: the set of self.adsblock is the installed one
Installed(a, how) ==
    [a EXCEPT !.installed = a.blocked,
              !.watcher = [a.watcher EXCEPT !.pc = "sleep", !.how = how],
              !.seen = IF a.seen.during /\ ~a.seen.resolved
                       THEN [a.seen EXCEPT !.resolved = TRUE,
                                           !.new = a.blocked]
                       ELSE a.seen]

\* AdsBlock.fetch after the last URL, then the two parse calls of load
FetchEnd(a, ab) ==
    LET a1 == [a EXCEPT
                 !.blocked = a.watcher.buffer,
                 !.updates = @ \o
                    <<SettingUpdate("domains", JoinLines(a.watcher.buffer)),
                      SettingUpdate("stats", NoText)>>]
        parsed == Parse("whitelist", ab.whitelist,
                        Parse("custom", ab.custom, a1.blocked))
    IN Installed([a1 EXCEPT !.blocked = parsed], "fetched")

\* AdsBlock.cache: the persisted set, the custom additions, the whitelist
Cache(ab, st) ==
    LET persisted == IF st.domains.exists THEN SplitLines(st.domains.value)
                     ELSE {}
    IN Parse("whitelist", ab.whitelist, Parse("custom", ab.custom, persisted))

\* a load that takes any recorded fetch for one of today
Load_AnyDay(a, ab, st, day) ==
    LET a1 == [a EXCEPT !.blocked = Cache(ab, st),
                        !.watcher = [pc |-> "fetch", i |-> 1, buffer |-> {},
                                     ok |-> {}, how |-> ""]]
    IN IF ~ab.reload /\ st.stats.exists
       THEN Installed(a1, "cached")
       ELSE IF ab.blacklist = <<>> THEN FetchEnd(a1, ab)
       ELSE a1

\* ADSServer.load up to its first suspension
Load(a, ab, st, day) ==
    LET a1 == [a EXCEPT !.blocked = Cache(ab, st),
                        !.watcher = [pc |-> "fetch", i |-> 1, buffer |-> {},
                                     ok |-> {}, how |-> ""]]
        updated_on == st.stats.updated_on
    IN IF ~ab.reload /\ st.stats.exists /\ day < updated_on + 1
       THEN Installed(a1, "cached")
       ELSE IF ab.blacklist = <<>> THEN FetchEnd(a1, ab)
       ELSE a1

\* ------------------------------------------------------------ the system
\* the database and the queue of a service that has just started
FreshStore ==
    /\ config_file = StartFile
    /\ adsblock_config = StartFile.adsblock
    /\ adsblock = StartFile.adsblock
    /\ settings = [sha256 |-> Row(Sha256(StartFile), 1),
                   domains |-> NoSetting, stats |-> NoSetting]
    /\ lists = [u \in Addresses |-> ([exists |-> FALSE, has_contents |-> FALSE, contents |-> <<>>,
                                               count |-> 0, status |-> ""])]
    /\ counters = [n \in AdsNames |-> 0]
    /\ updates = <<>>
    /\ today = 1
    /\ seen = ([name |-> "", hit |-> FALSE, old |-> {}, during |-> FALSE,
                         resolved |-> FALSE, new |-> {}])
    /\ synced = ([ran |-> FALSE, changed |-> FALSE, loaded |-> FALSE, sha256 |-> "",
                           before |-> NoRow, after |-> NoRow])
    /\ enqueued = [n \in AdsNames |-> 0]
    /\ edits = 0
    /\ lookups = 0

\* the watcher has installed the blocked set and sleeps
AdsLoaded ==
    /\ FreshStore
    /\ installed = blocked
    /\ watcher = [IdleWatcher EXCEPT !.pc = "sleep", !.how = "cached"]

\* no query has been received yet
NoQueries ==
    /\ task = [q \in Tasks |-> IdleTask]
    /\ locks = [k \in Keys |-> NoLock]
    /\ lk = [l \in LockIds |-> FreshLock]
    /\ cache = [k \in Keys |-> NoEntry]
    /\ cache_wip = {}
    /\ last_target_doh = NoTarget
    /\ prev_target_doh = NoTarget
    /\ reqs = [k \in Keys |-> 0]
    /\ failed = [k \in Keys |-> FALSE]
    /\ expired = [k \in Keys |-> FALSE]
    /\ got = [k \in Keys |-> <<>>]
    /\ filled = [k \in Keys |-> NoResponse]
    /\ arrivals = 0
    /\ last = NoLast

Init ==
    /\ forward \in [custom : {CustomMap}, dns : ({<< <<"lan", <<"10.0.0.1", "10.0.0.2">>>> >>,
                                                  << <<"">>, <<"lan", <<"10.0.0.1">>>>, <<"lan">> >>})]
    /\ upstream \in [doh : ({<<"https://doh1/dns-query">>,
                             <<"https://doh1/dns-query", "https://doh2/dns-query">>,
                             <<"https://doh1/dns-query", "https://doh1/dns-query",
                               "https://doh2/dns-query">>}), message : {"dns-message", "dns-json"}]
    /\ cache_enable \in BOOLEAN
    /\ blocked = {"ads.example.com."}
    /\ listener = "dns"
    /\ ServerUp
    /\ NoQueries
    /\ AdsLoaded

\* DNSHandler.datagram_received: a new task runs handle_request
DatagramReceived(q, data, target) ==
    /\ listener = "dns"
    /\ sock = "open"
    /\ arrivals < MaxArrivals
    /\ task[q].pc = "idle"
    /\ \A p \in Tasks : p < q => task[p].pc # "idle"
    /\ target \in TargetChoices(upstream.doh, last_target_doh)
    /\ Commit(HandleRequest(Cur, q, data, target))
    /\ arrivals' = arrivals + 1
    /\ UNCHANGED <<Config, ServerVars, AdsVars>>

\* the head waiter whose future was completed by Lock.release runs again
Woken(q) ==
    LET l == task[q].lock IN
    /\ l # NoLock
    /\ lk[l].woken
    /\ lk[l].waiters # <<>>
    /\ Head(lk[l].waiters) = q

\* ADSServer.get resumed: take and drop the lock, read the cache, go on
GetResume(q, target) ==
    /\ task[q].pc = "get_wait"
    /\ Woken(q)
    /\ target \in TargetChoices(upstream.doh, last_target_doh)
    /\ LET l == task[q].lock
           s1 == Release(Dequeue(Cur, l), l)
       IN Commit(CacheStage([s1 EXCEPT !.task[q].lock = NoLock], q, target))
    /\ UNCHANGED <<arrivals, Config, ServerVars, AdsVars>>

\* ADSServer.get_or_set resumed: take the lock and run the fetch
GetOrSetResume(q, target) ==
    /\ task[q].pc = "gos_wait"
    /\ Woken(q)
    /\ target \in TargetChoices(upstream.doh, last_target_doh)
    /\ Commit(UpstreamDoh(Dequeue(Cur, task[q].lock), q, target))
    /\ UNCHANGED <<arrivals, Config, ServerVars, AdsVars>>

\* the upstream answers the HTTP request
UpstreamReply(q) ==
    /\ task[q].pc = "upstream"
    /\ \E reply \in UpstreamReplies(task[q].question) :
          Commit(UpstreamDone(Cur, q, TRUE, reply))
    /\ UNCHANGED <<arrivals, Config, ServerVars, AdsVars>>

\* the HTTP request fails: transport error, timeout, status, anything else
UpstreamFail(q, err) ==
    /\ task[q].pc = "upstream"
    /\ err \in UpstreamErrors
    /\ Commit(UpstreamDone([Cur EXCEPT !.task[q].err = err], q, FALSE,
                           NoResponse))
    /\ UNCHANGED <<arrivals, Config, ServerVars, AdsVars>>

\* the forwarder answers within the timeout
ForwardReply(q) ==
    /\ task[q].pc = "forward"
    /\ \E reply \in UpstreamReplies(task[q].question) :
          Commit(ForwardDone(Cur, q, TRUE, reply))
    /\ UNCHANGED <<arrivals, Config, ServerVars, AdsVars>>

\* the forwarder times out or the exchange raises
ForwardFail(q, err) ==
    /\ task[q].pc = "forward"
    /\ err \in ForwardErrors
    /\ Commit(ForwardDone([Cur EXCEPT !.task[q].ferr = err], q, FALSE,
                          NoResponse))
    /\ UNCHANGED <<arrivals, Config, ServerVars, AdsVars>>

\* TTLCache drops an entry: its ttl has passed or maxsize evicts it
CacheExpire(key) ==
    /\ cache[key] # NoEntry
    /\ cache' = [cache EXCEPT ![key] = NoEntry]
    /\ expired' = [expired EXCEPT ![key] = TRUE]
    /\ UNCHANGED <<task, locks, lk, cache_wip, last_target_doh,
                   prev_target_doh, reqs,
                   failed, got, filled, arrivals, last, Config, ServerVars,
                   AdsVars>>

Next ==
    \/ \E q \in Tasks, data \in Datagrams, target \in Range(upstream.doh) \cup {NoTarget} :
          DatagramReceived(q, data, target)
    \/ \E q \in Tasks, target \in Range(upstream.doh) \cup {NoTarget} :
          GetResume(q, target)
    \/ \E q \in Tasks, target \in Range(upstream.doh) \cup {NoTarget} :
          GetOrSetResume(q, target)
    \/ \E q \in Tasks : UpstreamReply(q)
    \/ \E q \in Tasks, err \in UpstreamErrors : UpstreamFail(q, err)
    \/ \E q \in Tasks : ForwardReply(q)
    \/ \E q \in Tasks, err \in ForwardErrors : ForwardFail(q, err)
    \/ \E key \in Keys : CacheExpire(key)

Spec == Init /\ [][Next]_vars

\* ------------------------------------------------------------ DoH listener

\* base64.urlsafe_b64decode(text + "=="): excess padding is ignored, a text
\* of 4n+1 characters is no base64
UrlsafeB64decode(param) ==
    IF param.rem = 1 THEN [ok |-> FALSE, data |-> IdleTask.data]
    ELSE [ok |-> TRUE, data |-> param.data]

\* what a request that never reaches handle_query carried
Unsupported(kind) == [kind |-> kind, name |-> "", rdtype |-> 0]

\* DOHHandler.do_GET; the handler has no attribute logger, so logging the
\* unsupported query raises AttributeError
DoGet(q, param, target) ==
    /\ listener = "doh"
    /\ arrivals < MaxArrivals
    /\ task[q].pc = "idle"
    /\ \A p \in Tasks : p < q => task[p].pc # "idle"
    /\ target \in TargetChoices(upstream.doh, last_target_doh)
    /\ LET decoded == UrlsafeB64decode(param) IN
       IF ~param.present
       THEN Commit(Raise([Cur EXCEPT !.task[q].data = Unsupported("nodns")],
                         q, "do_GET"))
       ELSE IF ~decoded.ok
       THEN Commit(Raise([Cur EXCEPT !.task[q].data = Unsupported("nobase64")],
                         q, "do_GET"))
       ELSE Commit(HandleRequest(Cur, q, decoded.data, target))
    /\ arrivals' = arrivals + 1
    /\ UNCHANGED <<Config, ServerVars, AdsVars>>

\* DOHHandler.do_POST, with the same missing attribute
DoPost(q, post, target) ==
    /\ listener = "doh"
    /\ arrivals < MaxArrivals
    /\ task[q].pc = "idle"
    /\ \A p \in Tasks : p < q => task[p].pc # "idle"
    /\ target \in TargetChoices(upstream.doh, last_target_doh)
    /\ IF post.content_type # "application/dns-message"
       THEN Commit(Raise([Cur EXCEPT !.task[q].data = Unsupported("nodnsmessage")],
                         q, "do_POST"))
       ELSE Commit(HandleRequest(Cur, q, post.data, target))
    /\ arrivals' = arrivals + 1
    /\ UNCHANGED <<Config, ServerVars, AdsVars>>

InitDoh ==
    /\ OneConfig
    /\ listener = "doh"
    /\ ServerUp
    /\ NoQueries
    /\ AdsLoaded

NextDoh ==
    \/ \E q \in Tasks, param \in ({[present |-> FALSE, rem |-> 0, data |-> IdleTask.data],
                                   [present |-> TRUE, rem |-> 1, data |-> IdleTask.data]}
                                  \cup {[present |-> TRUE, rem |-> 2, data |-> d] : d \in Datagrams}), target \in Range(upstream.doh) \cup {NoTarget} :
          DoGet(q, param, target)
    \/ \E q \in Tasks, post \in ({[content_type |-> "application/dns-message", data |-> d] : d \in Datagrams}
                                 \cup {[content_type |-> "text/plain",
                                        data |-> [kind |-> "garbage", name |-> "", rdtype |-> 0]]}), target \in Range(upstream.doh) \cup {NoTarget} :
          DoPost(q, post, target)
    \/ \E q \in Tasks, target \in Range(upstream.doh) \cup {NoTarget} :
          GetResume(q, target)
    \/ \E q \in Tasks, target \in Range(upstream.doh) \cup {NoTarget} :
          GetOrSetResume(q, target)
    \/ \E q \in Tasks : UpstreamReply(q)
    \/ \E q \in Tasks, err \in UpstreamErrors : UpstreamFail(q, err)
    \/ \E q \in Tasks : ForwardReply(q)
    \/ \E q \in Tasks, err \in ForwardErrors : ForwardFail(q, err)
    \/ \E key \in Keys : CacheExpire(key)

SpecDoh == InitDoh /\ [][NextDoh]_vars

\* ------------------------------------------------------------ legacy DoH
\* do_GET or do_POST of helpers/doh.py has parsed a query and calls
\* do_something
LegacyRequest(q, question, target) ==
    /\ listener = "https"
    /\ arrivals < MaxArrivals
    /\ task[q].pc = "idle"
    /\ \A p \in Tasks : p < q => task[p].pc # "idle"
    /\ target \in TargetChoices(upstream.doh, last_target_doh)
    /\ Commit(DoSomething(Cur, q, question, target))
    /\ arrivals' = arrivals + 1
    /\ UNCHANGED <<Config, ServerVars, AdsVars>>

\* asyncio.sleep(3) of a request that found its key in cache_wip is over
WipSleepDone(q, target) ==
    /\ task[q].pc = "wip_sleep"
    /\ target \in TargetChoices(upstream.doh, last_target_doh)
    /\ Commit(LegacyCache(Cur, q, target))
    /\ UNCHANGED <<arrivals, Config, ServerVars, AdsVars>>

\* the upstream answers the request of do_something
LegacyReply(q) ==
    /\ task[q].pc = "post"
    /\ \E reply \in UpstreamReplies(task[q].question) :
          Commit(LegacyDone(Cur, q, TRUE, reply))
    /\ UNCHANGED <<arrivals, Config, ServerVars, AdsVars>>

\* the request of do_something raises
LegacyFail(q, err) ==
    /\ task[q].pc = "post"
    /\ err \in UpstreamErrors
    /\ Commit(LegacyDone([Cur EXCEPT !.task[q].err = err], q, FALSE,
                         NoResponse))
    /\ UNCHANGED <<arrivals, Config, ServerVars, AdsVars>>

\* DOHServer of helpers/doh.py: its cache is config.cache.cache, which
\* helpers/configs.py leaves None; the handler expects a mapping
InitLegacy ==
    /\ OneConfig
    /\ listener = "https"
    /\ ServerUp
    /\ AdsLoaded
    /\ task = [q \in Tasks |-> IdleTask]
    /\ locks = [k \in Keys |-> NoLock]
    /\ lk = [l \in LockIds |-> FreshLock]
    /\ cache \in {<<>>, [k \in Keys |-> NoEntry]}
    /\ cache_wip = {}
    /\ last_target_doh = NoTarget
    /\ prev_target_doh = NoTarget
    /\ reqs = [k \in Keys |-> 0]
    /\ failed = [k \in Keys |-> FALSE]
    /\ expired = [k \in Keys |-> FALSE]
    /\ got = [k \in Keys |-> <<>>]
    /\ filled = [k \in Keys |-> NoResponse]
    /\ arrivals = 0
    /\ last = NoLast

NextLegacy ==
    \/ \E q \in Tasks, question \in {x \in Questions : x.rdtype = 1},
          target \in Range(upstream.doh) \cup {NoTarget} :
          LegacyRequest(q, question, target)
    \/ \E q \in Tasks, target \in Range(upstream.doh) \cup {NoTarget} :
          WipSleepDone(q, target)
    \/ \E q \in Tasks : LegacyReply(q)
    \/ \E q \in Tasks, err \in UpstreamErrors : LegacyFail(q, err)

SpecLegacy == InitLegacy /\ [][NextLegacy]_vars

\* ------------------------------------------------------------ DoT listener

\* what ends a read of the stream without a frame
ReadErrors == {"IncompleteReadError", "ConnectionResetError"}

\* asyncio.start_server accepts a connection: handle_client starts and waits
\* in readexactly
DotConnect(c) ==
    /\ listener = "dot"
    /\ task[c].conn = "none"
    /\ \A p \in Tasks : p < c => task[p].conn # "none"
    /\ task' = [task EXCEPT ![c].conn = "open"]
    /\ UNCHANGED <<Pipeline, Config, ServerVars, AdsVars>>

\* handle_client has read the two length octets and the message: it runs
\* handle_request up to its first suspension
DotRead(c, data, target) ==
    /\ listener = "dot"
    /\ task[c].conn = "open"
    /\ task[c].pc = "idle"
    /\ arrivals < MaxArrivals
    /\ target \in TargetChoices(upstream.doh, last_target_doh)
    /\ Commit(HandleRequest([Cur EXCEPT !.task[c].reads = Append(@, data)],
                            c, data, target))
    /\ arrivals' = arrivals + 1
    /\ UNCHANGED <<Config, ServerVars, AdsVars>>

\* readexactly raises: the client has closed the stream, or the read fails;
\* either way the finally clause closes the writer
DotReadFail(c, err) ==
    /\ listener = "dot"
    /\ task[c].conn = "open"
    /\ task[c].pc = "idle"
    /\ err \in ReadErrors
    /\ task' = [task EXCEPT ![c].conn = "closed"]
    /\ UNCHANGED <<Pipeline, Config, ServerVars, AdsVars>>

InitDot ==
    /\ forward = [custom |-> CustomMap, dns |-> <<>>]
    /\ upstream = [doh |-> <<"https://doh1/dns-query">>,
                   message |-> "dns-message"]
    /\ cache_enable = TRUE
    /\ blocked = {"ads.example.com."}
    /\ listener = "dot"
    /\ ServerUp
    /\ NoQueries
    /\ AdsLoaded

NextDot ==
    \/ \E c \in Tasks : DotConnect(c)
    \/ \E c \in Tasks, data \in ({d \in Datagrams :
                                     \/ d.kind = "garbage"
                                     \/ d.rdtype = 1 /\ d.name \in {"1.0.0.127.in-addr.arpa.",
                                                                    "widget.test."}}),
          target \in Range(upstream.doh) \cup {NoTarget} :
          DotRead(c, data, target)
    \/ \E c \in Tasks, err \in ReadErrors : DotReadFail(c, err)
    \/ \E q \in Tasks, target \in Range(upstream.doh) \cup {NoTarget} :
          GetResume(q, target)
    \/ \E q \in Tasks, target \in Range(upstream.doh) \cup {NoTarget} :
          GetOrSetResume(q, target)
    \/ \E q \in Tasks : UpstreamReply(q)
    \/ \E q \in Tasks, err \in UpstreamErrors : UpstreamFail(q, err)

SpecDot == InitDot /\ [][NextDot]_vars

\* ------------------------------------------------------------ stage order

\* the sets a refresh of the watcher can publish
BlockedSets ==
    {{"ads.example.com."},
     {"ads.example.com.", "localhost.", "nas.lan.", "widget.test."}}

\* AdsBlock.fetch assigns the new set while the servers run
BlockedPublished(set) ==
    /\ set \in BlockedSets \ {blocked}
    /\ blocked' = set
    /\ UNCHANGED <<forward, upstream, cache_enable, task, Pipeline,
                   ServerVars, AdsVars>>

\* the message of a resolver that cannot resolve the question
ServfailReply(question) ==
    [rcode |-> "SERVFAIL", question |-> question, answer |-> <<>>]

\* the upstream answers the HTTP request with a message of rcode SERVFAIL
UpstreamServfail(q) ==
    /\ task[q].pc = "upstream"
    /\ Commit(UpstreamDone(Cur, q, TRUE, ServfailReply(task[q].question)))
    /\ UNCHANGED <<arrivals, Config, ServerVars, AdsVars>>

\* the forwarder answers with a message of rcode SERVFAIL
ForwardServfail(q) ==
    /\ task[q].pc = "forward"
    /\ Commit(ForwardDone(Cur, q, TRUE, ServfailReply(task[q].question)))
    /\ UNCHANGED <<arrivals, Config, ServerVars, AdsVars>>

InitStages ==
    /\ forward = [custom |-> CustomMap,
                  dns |-> << <<"lan", <<"10.0.0.1", "10.0.0.2">>>> >>]
    /\ upstream = [doh |-> <<"https://doh1/dns-query">>,
                   message |-> "dns-message"]
    /\ cache_enable \in BOOLEAN
    /\ blocked = {"ads.example.com."}
    /\ listener = "dns"
    /\ ServerUp
    /\ NoQueries
    /\ AdsLoaded

NextStages ==
    \/ \E q \in Tasks, data \in ({d \in Datagrams :
                                     d.rdtype = 1 /\ d.name \in {"localhost.", "1.0.0.127.in-addr.arpa.",
                                                                 "nas.lan.", "widget.test."}}),
          target \in Range(upstream.doh) \cup {NoTarget} :
          DatagramReceived(q, data, target)
    \/ \E q \in Tasks, target \in Range(upstream.doh) \cup {NoTarget} :
          GetResume(q, target)
    \/ \E q \in Tasks, target \in Range(upstream.doh) \cup {NoTarget} :
          GetOrSetResume(q, target)
    \/ \E q \in Tasks : UpstreamReply(q)
    \/ \E q \in Tasks, err \in UpstreamErrors : UpstreamFail(q, err)
    \/ \E q \in Tasks : ForwardReply(q)
    \/ \E q \in Tasks, err \in ForwardErrors : ForwardFail(q, err)
    \/ \E q \in Tasks : UpstreamServfail(q)
    \/ \E q \in Tasks : ForwardServfail(q)
    \/ \E set \in BlockedSets : BlockedPublished(set)

SpecStages == InitStages /\ [][NextStages]_vars

\* the pipeline with queries whose names differ in letter case only
NextCase ==
    \/ \E q \in Tasks, x \in CaseQuestions \cup
                 {y \in Questions : y = [name |-> "widget.test.", rdtype |-> 1]},
          target \in Range(upstream.doh) \cup {NoTarget} :
          DatagramReceived(q, [kind |-> "query", name |-> x.name,
                               rdtype |-> x.rdtype], target)
    \/ \E q \in Tasks, target \in Range(upstream.doh) \cup {NoTarget} :
          GetResume(q, target)
    \/ \E q \in Tasks, target \in Range(upstream.doh) \cup {NoTarget} :
          GetOrSetResume(q, target)
    \/ \E q \in Tasks : UpstreamReply(q)

SpecCase == InitStages /\ [][NextCase]_vars

\* a suspended handler task runs again: a woken waiter resumes, a forward
\* or upstream call ends by a reply or by a failure
Resumes ==
    \E q \in Tasks :
        \/ \E target \in Range(upstream.doh) \cup {NoTarget} :
              GetResume(q, target)
        \/ \E target \in Range(upstream.doh) \cup {NoTarget} :
              GetOrSetResume(q, target)
        \/ UpstreamReply(q)
        \/ UpstreamServfail(q)
        \/ \E err \in UpstreamErrors : UpstreamFail(q, err)
        \/ ForwardReply(q)
        \/ ForwardServfail(q)
        \/ \E err \in ForwardErrors : ForwardFail(q, err)

\* the event loop runs every callback that is ready, and every forward and
\* upstream call terminates: weak fairness of Resumes, whose enabling
\* condition is that some task is not idle
SpecLive ==
    /\ InitStages
    /\ [][NextStages]_vars
    /\ \/ []<>(\A q \in Tasks : task[q].pc = "idle")
       \/ []<><<Resumes>>_vars

\* ------------------------------------------------------------ DNSServer

\* BaseServer.reload up to its first suspension: DNSServer.close clears
\* running, sets the shutdown event, closes the transport and starts closing
\* the HTTP client; the queries in flight are marked
ReloadClose(config) ==
    /\ listener = "dns"
    /\ reload_pc.pc \in {"none", "done"}
    /\ reloads < MaxReloads
    /\ config \in ReloadConfigs
    /\ running' = FALSE
    /\ shutdown_event' = TRUE
    /\ transport' = "None"
    /\ sock' = IF transport = "bound" THEN "closing" ELSE sock
    /\ http_client' = "closed"
    /\ reload_pc' = [pc |-> "close", config |-> config]
    /\ reloads' = reloads + 1
    /\ task' = [q \in Tasks |->
                  IF task[q].pc = "idle" THEN task[q]
                  ELSE [task[q] EXCEPT !.old = TRUE]]
    /\ UNCHANGED <<listener, listen_pc, restart, service_pc, Config, Pipeline,
                   AdsVars>>

\* the rest of reload: take the new config, then DNSServer.listen, whose
\* loop runs only while self.running
ReloadListen ==
    /\ reload_pc.pc = "close"
    /\ forward' = reload_pc.config.forward
    /\ upstream' = reload_pc.config.upstream
    /\ cache_enable' = reload_pc.config.cache_enable
    /\ IF running
       THEN /\ transport' = "bound"
            /\ sock' = "open"
            /\ reload_pc' = [reload_pc EXCEPT !.pc = "listen"]
       ELSE /\ reload_pc' = [reload_pc EXCEPT !.pc = "done"]
            /\ UNCHANGED <<transport, sock>>
    /\ UNCHANGED <<blocked, task, Pipeline, listener, running, http_client,
                   shutdown_event, listen_pc, reloads, restart, service_pc,
                   AdsVars>>

\* the listen task started by service(): shutdown_event.wait returns
ListenWake ==
    /\ listen_pc = "wait"
    /\ shutdown_event
    /\ listen_pc' = "sleep"
    /\ UNCHANGED <<Config, task, Pipeline, listener, running, transport, sock,
                   http_client, shutdown_event, reload_pc, reloads, restart,
                   service_pc, AdsVars>>

\* the listen task after asyncio.sleep(1): the loop test, then the next bind
ListenLoop ==
    /\ listen_pc = "sleep"
    /\ IF running
       THEN /\ transport' = "bound"
            /\ sock' = "open"
            /\ listen_pc' = "wait"
       ELSE /\ listen_pc' = "done"
            /\ UNCHANGED <<transport, sock>>
    /\ UNCHANGED <<Config, task, Pipeline, listener, running, http_client,
                   shutdown_event, reload_pc, reloads, restart, service_pc,
                   AdsVars>>

\* the event loop runs connection_lost of a closed transport: the socket is
\* closed
ConnectionLost ==
    /\ sock = "closing"
    /\ sock' = "closed"
    /\ UNCHANGED <<Config, task, Pipeline, listener, running, transport,
                   http_client, shutdown_event, listen_pc, reload_pc, reloads,
                   restart, service_pc, AdsVars>>

InitServer ==
    /\ OneConfig
    /\ cache_enable
    /\ listener = "dns"
    /\ ServerUp
    /\ NoQueries
    /\ AdsLoaded

NextServer ==
    \/ \E q \in Tasks, data \in ({[kind |-> "query", name |-> x.name, rdtype |-> x.rdtype] : x \in CustomQuestions}
                                 \cup {[kind |-> "query", name |-> n, rdtype |-> 1] :
                                          n \in {"localhost.", "1.0.0.127.in-addr.arpa."}}),
          target \in Range(upstream.doh) \cup {NoTarget} :
          DatagramReceived(q, data, target)
    \/ \E q \in Tasks, target \in Range(upstream.doh) \cup {NoTarget} :
          GetResume(q, target)
    \/ \E q \in Tasks, target \in Range(upstream.doh) \cup {NoTarget} :
          GetOrSetResume(q, target)
    \/ \E q \in Tasks : UpstreamReply(q)
    \/ \E q \in Tasks, err \in UpstreamErrors : UpstreamFail(q, err)
    \/ \E key \in Keys : CacheExpire(key)
    \/ \E config \in ReloadConfigs : ReloadClose(config)
    \/ ReloadListen
    \/ ListenWake
    \/ ListenLoop
    \/ ConnectionLost

SpecServer == InitServer /\ [][NextServer]_vars

\* ------------------------------------------------------------ service
\* servers.DNSServer.listen after asyncio.sleep(1): the loop test, then
\* create_datagram_endpoint raises; only TimeoutError and PermissionError
\* are caught
ListenBindFail(err) ==
    /\ listener = "dns"
    /\ listen_pc = "sleep"
    /\ running
    /\ restart' = IF err = "TimeoutError" THEN TRUE ELSE restart
    /\ listen_pc' = IF err \in {"TimeoutError", "PermissionError"}
                    THEN "sleep" ELSE "dead"
    /\ UNCHANGED <<Config, task, Pipeline, listener, running, transport, sock,
                   http_client, shutdown_event, reload_pc, reloads,
                   service_pc, AdsVars>>

\* helpers.DNSServer.listen after a sleep: the loop test, the clean-up of
\* the old transport when there is none or a restart is wanted, then the
\* call of create_datagram_endpoint
LegacyLoop ==
    /\ listener = "udp"
    /\ listen_pc = "sleep"
    /\ IF ~running
       THEN /\ listen_pc' = "done"
            /\ UNCHANGED <<transport, sock, restart>>
       ELSE /\ listen_pc' = "bind"
            /\ IF transport = "None" \/ restart
               THEN /\ transport' = "None"
                    /\ sock' = IF transport = "bound" THEN "closed" ELSE sock
                    /\ restart' = FALSE
               ELSE UNCHANGED <<transport, sock, restart>>
    /\ UNCHANGED <<Config, task, Pipeline, listener, running, http_client,
                   shutdown_event, reload_pc, reloads, service_pc, AdsVars>>

\* create_datagram_endpoint returns or raises: the port is taken while the
\* socket of the last transport is open; only TimeoutError is caught
LegacyBind(outcome) ==
    /\ listen_pc = "bind"
    /\ outcome \in IF sock = "open" THEN {"TimeoutError", "OSError"}
                   ELSE {"bound", "TimeoutError", "OSError"}
    /\ IF outcome = "bound"
       THEN /\ transport' = "bound"
            /\ sock' = "open"
            /\ listen_pc' = "sleep"
            /\ UNCHANGED restart
       ELSE /\ restart' = IF outcome = "TimeoutError" THEN TRUE ELSE restart
            /\ listen_pc' = IF outcome = "TimeoutError" THEN "sleep"
                            ELSE "dead"
            /\ UNCHANGED <<transport, sock>>
    /\ UNCHANGED <<Config, task, Pipeline, listener, running, http_client,
                   shutdown_event, reload_pc, reloads, service_pc, AdsVars>>

\* service() is cancelled, or every listen task has ended: gather cancels
\* the listen tasks that still run, then the finally clause calls close()
\* of the servers in reverse order, the DNS server, then ADSServer, then
\* SQLite with its last flush
ServiceFinally(outcome) ==
    /\ service_pc # "down"
    /\ service_pc' = IF service_pc = "up" THEN "ads"
                     ELSE IF service_pc = "ads" THEN "sqlite" ELSE "down"
    /\ IF service_pc = "up"
       THEN /\ running' = FALSE
            /\ shutdown_event' = (listener = "dns")
            /\ transport' = "None"
            /\ sock' = IF transport = "bound" THEN "closed" ELSE sock
            /\ http_client' = "closed"
       ELSE UNCHANGED <<running, shutdown_event, transport, sock, http_client>>
    /\ listen_pc' = IF service_pc = "up" /\ listen_pc \notin {"dead", "done"}
                    THEN "cancelled" ELSE listen_pc
    /\ watcher' = IF service_pc = "up" /\ watcher.pc # "dead"
                  THEN [watcher EXCEPT !.pc = "cancelled"] ELSE watcher
    /\ LET db == IF service_pc = "sqlite" /\ outcome = "commit"
                 THEN ParseAll(Tables, updates, today) ELSE Tables
       IN /\ settings' = db.settings
          /\ lists' = db.lists
          /\ counters' = db.counters
          /\ updates' = IF service_pc = "sqlite" THEN <<>> ELSE updates
    /\ UNCHANGED <<Config, task, Pipeline, listener, reload_pc,
                   reloads, restart, config_file, adsblock_config, adsblock,
                   today, installed, seen, synced, enqueued, edits, lookups>>

\* ------------------------------------------------------------ ADSServer.listen
\* everything but the blocked set, the store and the watcher
Serving == <<forward, upstream, cache_enable, task, Pipeline, ServerVars>>

\* the exceptions of client.get that fetch answers from the stored row
FetchErrors == {"ConnectError", "HTTPStatusError"}

FetchReplies == {"success", "Exception"} \cup FetchErrors

\* the outcomes of client.get and raise_for_status that do not raise: a
\* body with domains, a body with none, a body served after a redirect
Successes == {"success", "empty", "redirect"}

\* ADSServer.listen starts: load runs up to its first suspension
WatcherStart ==
    /\ watcher.pc = "start"
    /\ AdsCommit(Load(AdsCur, adsblock, settings, today))
    /\ UNCHANGED <<Serving, config_file, adsblock_config, adsblock, settings,
                   lists, counters, today, synced, enqueued, edits, lookups>>

\* AdsBlock.fetch resumes from client.get of the current URL; after the
\* last URL the buffer becomes the set and load finishes
FetchReply(reply) ==
    /\ watcher.pc = "fetch"
    /\ LET url == adsblock.blacklist[watcher.i]
           row == lists[url]
           raises == reply \in FetchErrors /\ row.exists /\ ~row.has_contents
           text == IF reply = "empty" THEN << <<"#hosts">>, <<>> >>
                   ELSE Body(url)
           address == IF reply = "redirect" THEN Moved(url) ELSE url
           contents == IF reply \in Successes THEN text
                       ELSE IF reply \in FetchErrors /\ row.exists
                       THEN row.contents
                       ELSE <<>>
           ext == Extract(contents, watcher.buffer)
           queued == IF reply \in Successes
                     THEN <<ListUpdate(address, text, Extract(text, {}).count,
                                      "success")>>
                     ELSE IF reply \in FetchErrors
                     THEN <<ListUpdate(url, <<>>, 0, reply)>>
                     ELSE <<>>
           a1 == [AdsCur EXCEPT
                    !.updates = @ \o queued,
                    !.watcher = [@ EXCEPT
                        !.buffer = ext.buffer,
                        !.ok = IF reply \in Successes
                               THEN @ \cup {url} ELSE @,
                        !.i = @ + 1]]
       IN IF raises
          THEN AdsCommit([AdsCur EXCEPT !.watcher = [@ EXCEPT !.pc = "dead"]])
          ELSE IF watcher.i = Len(adsblock.blacklist)
          THEN AdsCommit(FetchEnd(a1, adsblock))
          ELSE AdsCommit(a1)
    /\ UNCHANGED <<Serving, config_file, adsblock_config, adsblock, settings,
                   lists, counters, today, synced, enqueued, edits, lookups>>

\* one turn of the loop of ADSServer.listen: Config.sync, and on a change a
\* new AdsBlock and load up to its first suspension
WatcherCycle ==
    /\ watcher.pc = "sleep"
    /\ LET loaded == ConfigLoad(config_file, adsblock_config)
           sync == ConfigSync(loaded.sha256, settings.sha256, today)
       IN /\ adsblock_config' = loaded.adsblock
          /\ settings' = [settings EXCEPT !.sha256 = sync.row]
          /\ synced' = [ran |-> TRUE, changed |-> sync.changed,
                        loaded |-> loaded.sha256 # "None",
                        sha256 |-> Sha256(config_file),
                        before |-> settings.sha256, after |-> sync.row]
          /\ IF sync.changed
             THEN /\ adsblock' = loaded.adsblock
                  /\ AdsCommit(Load([AdsCur EXCEPT !.blocked = {}],
                                    loaded.adsblock, settings, today))
             ELSE UNCHANGED <<adsblock, blocked, updates, watcher, installed,
                              seen>>
    /\ UNCHANGED <<Serving, config_file, lists, counters, today, enqueued,
                   edits, lookups>>

\* the config file is rewritten
EditConfig(file) ==
    /\ edits < MaxEdits
    /\ file \in RefreshFiles \ {config_file}
    /\ config_file' = file
    /\ edits' = edits + 1
    /\ UNCHANGED <<Serving, blocked, adsblock_config, adsblock, settings,
                   lists, counters, updates, watcher, today, installed, seen,
                   synced, enqueued, lookups>>

\* the blocked-domains stage of handle_request for an A query of a name
\* outside forward.custom: the lookup in get_blocked_domains() and, on a
\* hit, the counter update; a miss goes on to the cache stage
BlockedDomains(name) ==
    /\ lookups < MaxLookups
    /\ lookups' = lookups + 1
    /\ seen' = [name |-> name, hit |-> name \in blocked, old |-> installed,
                during |-> watcher.pc = "fetch", resolved |-> FALSE,
                new |-> {}]
    /\ IF name \in blocked
       THEN /\ updates' = Append(updates,
                                 [table |-> "AdsBlockDomain", key |-> name,
                                  value |-> NoText, contents |-> <<>>,
                                  status |-> ""])
            /\ enqueued' = [enqueued EXCEPT ![name] = @ + 1]
       ELSE UNCHANGED <<updates, enqueued>>
    /\ UNCHANGED <<Serving, blocked, config_file, adsblock_config, adsblock,
                   settings, lists, counters, watcher, today, installed,
                   synced, edits>>

\* SQLite.flushB with a queue that is not empty: every update is parsed
\* into the session, the queue is cleared, then the commit succeeds or is
\* rolled back
Flush(outcome) ==
    /\ updates # <<>>
    /\ updates' = <<>>
    /\ LET db == IF outcome = "commit" THEN ParseAll(Tables, updates, today)
                 ELSE Tables
       IN /\ settings' = db.settings
          /\ lists' = db.lists
          /\ counters' = db.counters
    /\ UNCHANGED <<Serving, blocked, config_file, adsblock_config, adsblock,
                   watcher, today, installed, seen, synced, enqueued, edits,
                   lookups>>

InitAds ==
    /\ forward = [custom |-> CustomMap, dns |-> <<>>]
    /\ upstream = [doh |-> <<"https://doh1/dns-query">>,
                   message |-> "dns-message"]
    /\ cache_enable = TRUE
    /\ blocked = {}
    /\ listener = "dns"
    /\ ServerUp
    /\ NoQueries
    /\ FreshStore
    /\ installed = {}
    /\ watcher = IdleWatcher

NextAds ==
    \/ WatcherStart
    \/ \E reply \in FetchReplies : FetchReply(reply)
    \/ WatcherCycle
    \/ \E file \in ConfigFiles : EditConfig(file)
    \/ \E name \in AdsNames : BlockedDomains(name)
    \/ \E outcome \in {"commit", "rollback"} : Flush(outcome)

SpecAds == InitAds /\ [][NextAds]_vars

\* datetime.now(tz=timezone.utc).date() changes
Midnight ==
    /\ today < MaxDay
    /\ today' = today + 1
    /\ UNCHANGED <<Serving, blocked, config_file, adsblock_config, adsblock,
                   settings, lists, counters, updates, watcher, installed,
                   seen, synced, enqueued, edits, lookups>>

\* the refreshes alone, with every outcome of client.get and every file
NextRefresh ==
    \/ WatcherStart
    \/ \E reply \in FetchReplies \cup Successes : FetchReply(reply)
    \/ WatcherCycle
    \/ \E file \in RefreshFiles : EditConfig(file)
    \/ \E outcome \in {"commit", "rollback"} : Flush(outcome)
    \/ Midnight

SpecRefresh == InitAds /\ [][NextRefresh]_vars

InitService ==
    /\ forward = [custom |-> CustomMap, dns |-> <<>>]
    /\ upstream = [doh |-> <<"https://doh1/dns-query">>,
                   message |-> "dns-message"]
    /\ cache_enable = TRUE
    /\ blocked = {"track.example.com."}
    /\ NoQueries
    /\ AdsLoaded
    /\ listener \in {"dns", "udp"}
    /\ running = TRUE
    /\ transport = "None"
    /\ sock = "closed"
    /\ http_client = "open"
    /\ shutdown_event = FALSE
    /\ listen_pc = "sleep"
    /\ reload_pc = NoReload
    /\ reloads = 0
    /\ restart = FALSE
    /\ service_pc = "up"

\* the servers from their start to the end of service(): the listen task,
\* blocked queries while the socket is open, the flusher until it is
\* cancelled, the shutdown
NextService ==
    \/ listener = "dns" /\ ListenLoop
    \/ \E err \in {"TimeoutError", "PermissionError", "OSError"} :
          ListenBindFail(err)
    \/ LegacyLoop
    \/ \E outcome \in {"bound", "TimeoutError", "OSError"} :
          LegacyBind(outcome)
    \/ \E name \in AdsNames : sock = "open" /\ BlockedDomains(name)
    \/ \E outcome \in {"commit", "rollback"} :
          service_pc = "up" /\ Flush(outcome)
    \/ \E outcome \in {"commit", "rollback"} : ServiceFinally(outcome)

SpecService == InitService /\ [][NextService]_vars

\* ------------------------------------------------------------ properties

NoForwardRule(query_name) ==
    LET m == MatchRule(forward.dns, query_name)
    IN ~m.raised /\ m.target_server = ""

\* C1: with the cache enabled and no forward rule for the name, as long as no
\* upstream request for a key has failed and no entry of it has been dropped,
\* exactly one upstream request has been issued for the key, and every
\* client served for it (the leader and those that waited or came later)
\* got the answer of that request.
C1_Singleflight ==
    (/\ last.stage \in {"cache", "upstream"}
     /\ cache_enable
     /\ NoForwardRule(last.query_name)
     /\ ~failed[last.key]
     /\ ~expired[last.key])
    => /\ reqs[last.key] = 1
       /\ last.resp.answer = got[last.key]
       /\ last.sent = <<last.resp>>

\* a client that waited in ADSServer.get while the leader's request was in
\* flight has been answered with the leader's answer, after one request
C1_Witness ==
    /\ last.stage = "cache"
    /\ "get" \in last.waited
    /\ cache_enable
    /\ ~failed[last.key]
    /\ ~expired[last.key]
    /\ reqs[last.key] = 1
    /\ last.resp.answer # <<>>
    /\ last.resp.answer = got[last.key]

\* C2: at every instant at most one compute (upstream_doh) runs per key.
C2_AtMostOneCompute == \A k \in Keys : Cardinality({q \in Tasks : task[q].pc = "upstream" /\ task[q].key = k}) <= 1

\* C3 as claimed: every query whose name is blocked or whose type is PTR is
\* answered NXDOMAIN, with no upstream and no forward request.
C3_Original ==
    (last.question # <<>>
     /\ (last.query_name \in blocked \/ last.query_type = "PTR"))
    => /\ last.resp.rcode = "NXDOMAIN"
       /\ last.ups = 0
       /\ last.fwd = 0

\* C3: every query that is not a custom hit (its name is no key of the
\* custom map, or its type is neither A nor PTR) and whose name is blocked or
\* whose type is PTR is answered NXDOMAIN, with no upstream and no forward
\* request.
C3_Blocked ==
    (last.question # <<>>
     /\ ~(last.query_name \in DOMAIN forward.custom
          /\ last.query_type \in {"A", "PTR"})
     /\ (last.query_name \in blocked \/ last.query_type = "PTR"))
    => /\ last.resp.rcode = "NXDOMAIN"
       /\ last.resp.question = last.question
       /\ last.sent = <<last.resp>>
       /\ last.ups = 0
       /\ last.fwd = 0

\* a PTR query for a name that is neither blocked nor in the custom map was
\* answered NXDOMAIN
C3_Witness ==
    /\ last.query_type = "PTR"
    /\ last.query_name \notin blocked
    /\ last.query_name \notin DOMAIN forward.custom
    /\ last.resp.rcode = "NXDOMAIN"
    /\ last.ups = 0

\* C4: a query of type A or PTR for a key of the custom map gets NOERROR with
\* exactly one RRset of TTL 300, class IN and the configured literal as
\* rdata, and no blocked-set, cache, forwarder or upstream is consulted.
C4_CustomAnswer ==
    (last.question # <<>>
     /\ last.query_name \in DOMAIN forward.custom
     /\ last.query_type \in {"A", "PTR"})
    => /\ last.resp.rcode = "NOERROR"
       /\ Len(last.resp.answer) = 1
       /\ last.resp.answer[1].ttl = 300
       /\ last.resp.answer[1].rdclass = "IN"
       /\ last.resp.answer[1].rdata = forward.custom[last.query_name]
       /\ last.waited = {}
       /\ last.ups = 0
       /\ last.fwd = 0

\* C5: handle_request never raises: every task that ends has a response.
C5_NeverRaises ==
    last.stage # "none" => (~last.raised /\ last.resp # NoResponse)

\* C6: a query that parses enqueues exactly one counter update, of the kind
\* of the stage that served it; a datagram that does not parse enqueues none.
C6_OneCounter ==
    last.stage # "none" =>
        IF last.question # <<>>
        THEN last.upd = <<IF last.stage = "custom" THEN "custom-hit"
                          ELSE IF last.stage = "blocked" THEN "blacklisted"
                          ELSE IF last.stage = "cache" THEN "cache-hit"
                          ELSE last.stage>>
        ELSE last.upd = <<>>

\* the slot DatagramReceived gives to the next task
ArrivingTask ==
    CHOOSE q \in Tasks :
        task[q].pc = "idle" /\ \A p \in Tasks : p < q => task[p].pc # "idle"

C8_StickyAvoidance ==
    (Len(upstream.doh) >= 2 /\ prev_target_doh # NoTarget)
    => last_target_doh # prev_target_doh

\* C9: a datagram that is no DNS query with a question gets exactly one
\* reply, of RCODE FORMERR; no counter is recorded, and the cache, the
\* forwarder and the upstream are not used.
C9_FormErr ==
    last.data.kind \in {"garbage", "noquestion"}
    => /\ Len(last.sent) = 1
       /\ last.sent[1].rcode = "FORMERR"
       /\ last.upd = <<>>
       /\ last.waited = {}
       /\ last.ins = 0
       /\ last.ups = 0
       /\ last.fwd = 0

\* a message without a question was answered FORMERR
C9_Witness ==
    /\ last.data.kind = "noquestion"
    /\ Len(last.sent) = 1
    /\ last.sent[1].rcode = "FORMERR"

\* C10: a query whose upstream DoH request failed is answered SERVFAIL, in a
\* response made from that query (its question, no answer).
C10_Servfail ==
    last.err # ""
    => /\ last.resp.rcode = "SERVFAIL"
       /\ last.resp.question = last.question
       /\ last.resp.answer = <<>>
       /\ last.sent = <<last.resp>>

\* a non-2xx status of the upstream ended in a SERVFAIL reply
C10_Witness ==
    /\ last.err = "HTTPStatusError"
    /\ last.ups = 1
    /\ last.resp.rcode = "SERVFAIL"
    /\ last.sent # <<>>

\* C14 as claimed: once reload(config, adsblock) has run, the server holds
\* the new config and is bound again, with a running listen loop and an HTTP
\* client that can send upstream requests.
C14_ReloadRebinds ==
    reload_pc.pc = "done"
    => /\ forward = reload_pc.config.forward
       /\ upstream = reload_pc.config.upstream
       /\ cache_enable = reload_pc.config.cache_enable
       /\ running
       /\ transport = "bound"
       /\ sock = "open"
       /\ http_client = "open"

\* C15 as claimed: a query that was in flight when reload was called gets
\* its response sent to the client, and the reload does not turn it into a
\* failure of the upstream request.
C15_InFlightCompletes ==
    (last.stage # "none" /\ last.old)
    => /\ last.resp # NoResponse
       /\ last.sent = <<last.resp>>
       /\ last.err # "RuntimeError"

\* C16 as claimed: a query whose forwarder timed out or failed goes on to
\* the upstream stage and is answered from there.
C16_ForwardFallThrough ==
    last.ferr # ""
    => /\ last.ups >= 1
       /\ last.stage = "upstream"

C19_Unsupported400 ==
    last.data.kind \in {"nodns", "nodnsmessage"}
    => /\ last.http.status = 400
       /\ last.upd = <<>>
       /\ last.ins = 0
       /\ last.ups = 0
       /\ last.fwd = 0

\* C20 as claimed: a UDP query of type A or AAAA for a name of the custom
\* map is answered with one datagram of RCODE NOERROR whose first answer
\* carries the literal configured for the name.
C20_CustomAOrAAAA ==
    (last.question # <<>>
     /\ last.query_name \in DOMAIN forward.custom
     /\ last.query_type \in {"A", "AAAA"})
    => /\ Len(last.sent) = 1
       /\ last.sent[1].rcode = "NOERROR"
       /\ Len(last.sent[1].answer) >= 1
       /\ last.sent[1].answer[1].rdata = forward.custom[last.query_name]

\* C11: a blocked-set lookup made while a refresh or a reload is running
\* gives the answer of the set installed before it or the answer of the set
\* installed after it
C11_AtomicSwap ==
    seen.resolved =>
        \/ seen.hit = (seen.name \in seen.old)
        \/ seen.hit = (seen.name \in seen.new)

\* C12: after a load that fetched, the installed set is the union of the
\* parsed sources and the custom additions minus the whitelist: it holds
\* every domain of each fetched source that is not whitelisted, no
\* whitelisted domain, and nothing that is in no source and not custom
C12_UnionRule ==
    LET parsed == [u \in Urls |->
                     IF u = "https://lists/a.txt"
                     THEN {"ads.example.com.", "track.example.com."}
                     ELSE {"beacon.example.com."}]
        white == {d \o "." : d \in adsblock.whitelist}
        custom == {d \o "." : d \in adsblock.custom}
    IN (watcher.pc = "sleep" /\ watcher.how = "fetched") =>
          /\ installed = blocked
          /\ \A u \in watcher.ok : parsed[u] \ white \subseteq blocked
          /\ blocked \cap white = {}
          /\ custom \ white \subseteq blocked
          /\ blocked \subseteq (UNION {parsed[u] : u \in Urls}) \cup custom

C12_Witness ==
    /\ watcher.pc = "sleep"
    /\ watcher.how = "fetched"
    /\ watcher.ok = Urls
    /\ adsblock.whitelist = {"ads.example.com"}
    /\ blocked = {"track.example.com.", "beacon.example.com.",
                  "spy.example.com."}

\* C13 as stated: a cycle of the watcher reloads exactly when the digest of
\* the config file differs from the persisted one
C13_ReloadIffDiffers ==
    synced.ran =>
        (synced.changed <=>
            (~synced.before.exists \/ synced.sha256 # synced.before.value))

\* C13: a cycle of the watcher reloads exactly when the config file loads
\* and its digest differs from the persisted one; a reported change has
\* persisted the digest, so a cycle over the unchanged file reports none
C13_ReloadIffLoadedAndDiffers ==
    synced.ran =>
        /\ synced.changed <=>
              /\ synced.loaded
              /\ ~synced.before.exists \/ synced.sha256 # synced.before.value
        /\ synced.changed =>
              /\ synced.after.exists
              /\ synced.after.value = synced.sha256
        /\ (synced.changed /\ Sha256(config_file) = synced.sha256) =>
              ~ConfigSync(ConfigLoad(config_file, adsblock_config).sha256,
                          settings.sha256, today).changed

C13_Witness ==
    /\ synced.ran
    /\ synced.changed
    /\ synced.before.value = Sha256(StartFile)
    /\ synced.sha256 # Sha256(StartFile)
    /\ settings.sha256.value = Sha256(config_file)

\* C17: once no counter update waits in the queue, the stored count of a
\* domain is the number of updates enqueued for it
C17_CountIsK ==
    (\A i \in 1..Len(updates) : updates[i].table # "AdsBlockDomain") =>
        \A n \in AdsNames : counters[n] = enqueued[n]

\* C21: on a DoT connection whose handler waits for the next query or has
\* closed, every query that was read has its response written, one frame per
\* query in the order of the reads, each frame prefixed with the length of
\* its wire as two octets, high octet first
C21_OneFramePerQuery ==
    \A c \in Tasks :
        (listener = "dot" /\ task[c].pc = "idle") =>
            /\ Len(task[c].written) = Len(task[c].reads)
            /\ \A i \in 1..Len(task[c].written) :
                  /\ task[c].written[i].wire.question
                        = FromWire(task[c].reads[i]).question
                  /\ FromBytes(task[c].written[i].prefix)
                        = WireLength(task[c].written[i].wire)

\* C22: the stages of a query that arrives are tried in the order custom,
\* blocked, cache, forward, upstream and the first that matches answers: a
\* key of the custom map asked as A or PTR gets the custom literal even when
\* it is blocked, a blocked name gets NXDOMAIN even when the cache holds an
\* entry for it, a cached entry is served before a forward rule is tried,
\* and a name with a forward rule is never sent upstream
C22_StageOrder ==
    [][(arrivals' = arrivals + 1 /\ cache_enable) =>
          LET t == task'[ArrivingTask]
              q == IF t.pc = "idle" THEN last' ELSE t
              custom == IsCustom(q.query_name, q.query_type)
              block == IsBlocked(q.query_name, q.query_type)
              hit == cache[q.key] # NoEntry /\ locks[q.key] = NoLock
          IN /\ custom =>
                  /\ t.pc = "idle"
                  /\ last'.stage = "custom"
                  /\ last'.resp.rcode = "NOERROR"
                  /\ Len(last'.resp.answer) = 1
                  /\ last'.resp.answer[1].rdata = forward.custom[q.query_name]
             /\ (~custom /\ block) =>
                  /\ t.pc = "idle"
                  /\ last'.stage = "blocked"
                  /\ last'.resp.rcode = "NXDOMAIN"
             /\ (~custom /\ ~block /\ hit) =>
                  /\ t.pc = "idle"
                  /\ last'.stage = "cache"
                  /\ last'.fwd = 0
                  /\ last'.ups = 0
             /\ (~custom /\ ~block /\ ~hit /\ ~NoForwardRule(q.query_name)) =>
                  /\ t.pc \in {"forward", "get_wait"}
                  /\ t.ups = 0]_vars

\* C23: a query that waited for the compute of its key, in ADSServer.get or
\* in ADSServer.get_or_set, issues no upstream request of its own and is
\* answered with the result of the leader: the leader's answer, or SERVFAIL
\* when the leader's request failed
C23_WaitersShareResult ==
    (last.stage # "none" /\ last.waited # {}) =>
        /\ last.ups = 0
        /\ IF failed[last.key] THEN last.resp.rcode = "SERVFAIL"
           ELSE last.resp.answer = got[last.key]

\* C24: ADSServer.locks holds a lock for a key only while a query for the
\* key is in flight, and the lock a running compute holds is the one
\* registered under its key
C24_LocksWhileInFlight ==
    /\ \A k \in Keys :
          locks[k] # NoLock =>
              \E q \in Tasks : task[q].pc # "idle" /\ task[q].key = k
    /\ \A q \in Tasks :
          task[q].pc = "upstream" =>
              /\ task[q].lock # NoLock
              /\ lk[task[q].lock].locked
              /\ locks[task[q].key] = task[q].lock

\* C26: a query inserts into the cache at most once, under its own key,
\* only with the cache enabled and only when its forward or upstream
\* resolution did not end in SERVFAIL; no entry appears in the cache in any
\* other way
C26_OneCacheInsert ==
    [][/\ last'.stage # "none" =>
             /\ last'.ins <= 1
             /\ last'.ins = 1 =>
                   /\ cache_enable
                   /\ last'.stage \in {"forward", "upstream"}
                   /\ last'.resp.rcode # "SERVFAIL"
       /\ \A k \in Keys :
             (cache'[k] # cache[k] /\ cache'[k] # NoEntry) =>
                 /\ last'.key = k
                 /\ last'.ins = 1]_vars

\* C25: every query that enters handle_request produces a response: the
\* step that receives it answers it or suspends it, and a suspended query
\* ends with a response that is sent
C25_EveryQueryAnswered ==
    [][/\ arrivals' = arrivals + 1 =>
             \/ task'[ArrivingTask].pc # "idle"
             \/ last'.resp # NoResponse /\ last'.sent = <<last'.resp>>
       /\ \A q \in Tasks :
             (task[q].pc # "idle" /\ task'[q].pc = "idle") =>
                 last'.resp # NoResponse /\ last'.sent = <<last'.resp>>]_vars

\* the URL that AdsBlock.fetch is waiting for
FetchUrl == adsblock.blacklist[watcher.i]

\* the domains of the contents persisted for a URL
Persisted(url) == Extract(lists[url].contents, {})

\* C27: a sync that finds another hash than the stored one starts a fetch
\* of the sources, whatever the reload flag and the day of the last fetch
C27_HashChangeForcesRefresh ==
    [][settings'.sha256.value # settings.sha256.value =>
          \/ watcher'.pc = "fetch"
          \/ watcher'.how = "fetched"]_vars

\* C28: when the fetch of a URL fails, the domains of the contents persisted
\* for it, under its own address or the one it was redirected to, are in the
\* buffer that becomes the blocked set
C28_FailedUrlKeepsContents ==
    [][(/\ watcher.pc = "fetch"
        /\ watcher' # watcher
        /\ FetchUrl \notin watcher'.ok) =>
            \A address \in {FetchUrl, Moved(FetchUrl)} :
                lists[address].has_contents =>
                    Persisted(address).buffer \subseteq watcher'.buffer]_vars

\* C29: a body fetched with no domain in it leaves the persisted contents
\* of its URL alone, and their domains are in the buffer that becomes the
\* blocked set
C29_EmptyParseRetains ==
    [][/\ (/\ watcher.pc = "fetch"
           /\ FetchUrl \in watcher'.ok
           /\ Len(updates') > Len(updates)
           /\ Extract(updates'[Len(updates) + 1].contents, {}).count = 0
           /\ lists[FetchUrl].has_contents) =>
               Persisted(FetchUrl).buffer \subseteq watcher'.buffer
       /\ \A url \in Addresses :
             (lists[url].has_contents /\ Persisted(url).count > 0) =>
                 Extract(lists'[url].contents, {}).count > 0]_vars

C31_LowercasedName ==
    [][arrivals' = arrivals + 1 =>
          LET t == IF task'[ArrivingTask].pc = "idle" THEN last'
                   ELSE task'[ArrivingTask]
              lower == IF t.data.name = "ADS.Example.COM."
                       THEN "ads.example.com."
                       ELSE IF t.data.name = "Widget.Test." THEN "widget.test."
                       ELSE IF t.data.name = "LocalHost." THEN "localhost."
                       ELSE t.data.name
          IN /\ t.key = CacheKeyname(lower, t.query_type)
             /\ lower \in DOMAIN forward.custom =>
                   /\ task'[ArrivingTask].pc = "idle"
                   /\ last'.stage = "custom"
             /\ (lower \in blocked /\ lower \notin DOMAIN forward.custom) =>
                   /\ task'[ArrivingTask].pc = "idle"
                   /\ last'.resp.rcode = "NXDOMAIN"]_vars

\* C32: a sync whose load fails leaves the live configuration, the stored
\* hash and the watcher as they were
C32_FailedLoadKeepsConfig ==
    [][(synced' # synced /\ ~synced'.loaded) =>
          /\ adsblock_config' = adsblock_config
          /\ adsblock' = adsblock
          /\ settings' = settings
          /\ watcher' = watcher]_vars

\* C33: the queued updates leave the queue only by being written: a flush
\* that empties the queue has upserted every one of them into the tables
C33_FailedFlushKeepsQueue ==
    [][(updates # <<>> /\ updates' = <<>>) =>
          [settings |-> settings', lists |-> lists', counters |-> counters'] =
              ParseAll(Tables, updates, today)]_vars

\* C34: SQLite is closed last, after the listener and ADSServer, and its
\* close writes every update that is queued
C34_FinalFlushAfterListeners ==
    [][service_pc' = "down" /\ service_pc # "down" =>
          /\ ~running
          /\ sock # "open"
          /\ updates' = <<>>
          /\ [settings |-> settings', lists |-> lists',
              counters |-> counters'] = ParseAll(Tables, updates, today)]_vars

\* C36: while the server is meant to run, the listen task of
\* servers.DNSServer has not ended: a failed bind is followed by a retry
C36_BindRetried == (listener = "dns" /\ running) => listen_pc \notin {"dead", "done"}

\* C40: helpers.DNSServer.listen calls create_datagram_endpoint only while
\* it holds no transport, and its task ends only after close()
C40_OneEndpoint ==
    [][listener = "udp" =>
          /\ (listen_pc' = "bind" /\ listen_pc # "bind") => transport' = "None"
          /\ listen_pc' \in {"dead", "done"} => ~running']_vars

\* C35: load returns without a fetch exactly when reload is off and the
\* blocked-stats row records a fetch of the present UTC day; otherwise it
\* fetches
C35_FetchUnlessToday ==
    [][(watcher.pc \in {"start", "sleep"} /\ watcher' # watcher) =>
          /\ watcher'.how = "cached" <=>
                /\ ~adsblock'.reload
                /\ settings.stats.exists
                /\ settings.stats.updated_on = today
          /\ watcher'.how # "cached" =>
                watcher'.pc = "fetch" \/ watcher'.how = "fetched"]_vars

\* a load without the reload flag fetches because the recorded fetch is of
\* an earlier day
C35_Witness ==
    /\ watcher.pc = "fetch"
    /\ ~adsblock.reload
    /\ settings.stats.exists
    /\ settings.stats.updated_on < today
    /\ synced.changed

\* C38: a response served from the cache has the RCODE and the answer
\* RRsets of the response returned by the resolution that inserted the entry
C38_CacheHitEquivalent ==
    last.stage = "cache" =>
        /\ last.resp.rcode = filled[last.key].rcode
        /\ last.resp.answer = filled[last.key].answer

\* C37: a flush that changes adsblock_lists leaves the rows of the URLs
\* without a queued upsert alone; a row takes the status of its last
\* upsert, and contents and count of its last success upsert, or keeps
\* them when no queued upsert of the URL is a success
C37_UpsertFrame ==
    [][(updates # <<>> /\ updates' = <<>> /\ lists' # lists) =>
          \A url \in Addresses :
             LET ups == {i \in 1..Len(updates) :
                            /\ updates[i].table = "AdsBlockList"
                            /\ updates[i].key = url}
                 oks == {i \in ups : updates[i].status = "success"}
                 max(S) == CHOOSE i \in S : \A j \in S : j <= i
             IN IF ups = {} THEN lists'[url] = lists[url]
                ELSE /\ lists'[url].status = updates[max(ups)].status
                     /\ IF oks = {}
                        THEN /\ lists'[url].contents = lists[url].contents
                             /\ lists'[url].count = lists[url].count
                             /\ lists'[url].has_contents = lists[url].has_contents
                        ELSE /\ lists'[url].contents = updates[max(oks)].contents
                             /\ lists'[url].count = updates[max(oks)].count
                             /\ lists'[url].has_contents]_vars

\* a failure upsert was written over a row that holds fetched contents
C37_Witness ==
    \E url \in Addresses :
        /\ lists[url].status \in FetchErrors
        /\ lists[url].has_contents
        /\ lists[url].count > 0

\* C39: in do_something of helpers/doh.py a key is in cache_wip exactly
\* while an upstream request for it is in flight, and a request that found
\* its key in cache_wip does not send an upstream request of its own
C39_WipSingleFlight ==
    [][/\ \A key \in Keys :
             key \in cache_wip' <=>
                \E q \in Tasks : task'[q].pc = "post" /\ task'[q].key = key
       /\ \A q \in Tasks :
             task[q].pc = "wip_sleep" => task'[q].pc # "post"]_vars

====
